---- MODULE Spec2Model ----
(***************************************************************************)
(* The Store of agenda-inteligente-ai (src/db.ts) and the handlers of the  *)
(* group manager and profile modals that call it.                          *)
(*                                                                         *)
(* Each ledger is the array kept under its storage key; an operation loads *)
(* the arrays it needs, transforms them and writes them back, all in one   *)
(* step (the operations are synchronous).  Ids produced by uuid() are      *)
(* consecutive integers taken from a per-ledger counter, so an id is never *)
(* handed out twice.  Payload fields that no operation of the Store reads  *)
(* (text, description, attachments, dates, names, colours of projects) are *)
(* left out of the records.  An optional value (PublicUser | null,         *)
(* Note | null, the session slot) is a sequence of length 0 or 1.          *)
(*                                                                         *)
(* What a storage key holds: a JSON array is the sequence of its items and *)
(* the JSON of one object is the sequence of that one record.  A key that  *)
(* is absent and a key that holds the empty text are the empty sequence:   *)
(* every read of the Store takes both for nothing stored (`if (!json)`),   *)
(* and a ledger key with nothing stored reads as the empty array.  Any     *)
(* other text, written by something else than the Store, is RawText(t).    *)
(***************************************************************************)
EXTENDS Integers, Sequences, FiniteSets, TLC

\* ---------------------------------------------------------------- bounds
MaxUsers    == 2   \* registrations
MaxNotes    == 3   \* addNote calls
MaxProjects == 2   \* createProject calls
MaxGroups   == 2   \* createGroup calls

\* Input alphabets of the operations.
UserNames  == {"alice", "bob"}
Passwords  == {"pw1", "pw2"}
UserIds    == 1..MaxUsers
NoteIds    == 1..MaxNotes
ProjectIds == 1..MaxProjects
GroupIds   == 1..MaxGroups

\* parentId?: string -- 0 stands for "no parentId" (falsy in `if (n.parentId)`)
NoParent == 0

\* projectId?: string of deleteCategory -- 0 stands for "no projectId"
NoProject == 0

VARIABLES
    users,          \* agenda_users: sequence of User
    session,        \* agenda_session: <<>> or <<PublicUser>>
    notes,          \* agenda_notes: sequence of Note
    groups,         \* agenda_groups: sequence of Group
    projects,       \* agenda_projects: sequence of Project
    userCats,       \* agenda_user_categories: userId -> CategorySettings
    selectedGroup,  \* GroupManagerModal state: <<>> or <<Group>> (a snapshot)
    ctr,            \* how many ids uuid() has produced, per ledger
    traversal,      \* a deleteNote call under way: <<>> or <<its locals>>
    storedCustomTabs, \* agenda_custom_tabs: sequence of CustomTab
    view,           \* React state of Dashboard and ProjectView: [customTabs,
                    \*   activeTab, projects, selectedProject, activeProjectTab]
    calls,          \* per browser tab, an addNote call under way: <<>> or
                    \*   <<its locals>>
    last            \* the last operation: [op, a (arguments), ret (returned),
                    \*   removed (the records it took out of storage or replaced)]

vars == <<users, session, notes, groups, projects, userCats, selectedGroup, ctr,
          traversal, storedCustomTabs, view, calls, last>>

\* ------------------------------------------------------------- helpers
Range(s) == {s[i] : i \in 1..Len(s)}

Includes(s, x) == \E i \in 1..Len(s) : s[i] = x

\* Array.prototype.map
RECURSIVE MapSeq(_, _)
MapSeq(F(_), s) == IF s = <<>> THEN <<>> ELSE <<F(Head(s))>> \o MapSeq(F, Tail(s))

\* Array.prototype.findIndex: first index whose element satisfies P, 0 if none
FindIndex(s, P(_)) ==
    IF \E i \in 1..Len(s) : P(s[i])
    THEN CHOOSE i \in 1..Len(s) : P(s[i]) /\ \A j \in 1..(i-1) : ~P(s[j])
    ELSE 0

Removed(op, a, ret, gone) == [op |-> op, a |-> a, ret |-> ret, removed |-> gone]

Called(op, a, ret) == Removed(op, a, ret, {})

\* the note records an operation took out of the ledger or replaced
Gone == Range(notes) \ Range(notes')

\* --------------------------------------------------------------- storage
\* texts that are not the JSON of an array of records
RawTexts == {"{oops", "{}"}

\* JSON.parse(t) does not throw
Parses(t) == t # "{oops"

\* a key holding the text t
RawText(t) == <<[raw |-> t]>>

IsRawText(slot) == Len(slot) = 1 /\ "raw" \in DOMAIN slot[1]

\* elements of a stored array that are not objects: null, and a number
Null == [json |-> "null"]

NonObject == [json |-> "5"]

\* the shape validators: the required fields are there (id stands for them)
IsValidItem(item) == "id" \in DOMAIN item

\* a loader that returns nothing for a damaged key but leaves the text in place
GetFromStorageNoWipe(slot) ==
    IF IsRawText(slot)
    THEN [items |-> <<>>, slot |-> slot]
    ELSE [items |-> SelectSeq(slot, IsValidItem), slot |-> slot]

\* getFromStorage: the array it returns and what the key holds afterwards.
\* A text that does not parse (catch) and a text that parses to something
\* that is not an array both end in removeItem and [].
getFromStorage(slot) ==
    IF IsRawText(slot)
    THEN [items |-> <<>>, slot |-> <<>>]
    ELSE [items |-> SelectSeq(slot, IsValidItem), slot |-> slot]

\* the callback of parsed.map for the notes key: projectId -> projectIds
MigratedNote(note) ==
    IF "projectId" \in DOMAIN note /\ "projectIds" \notin DOMAIN note
    THEN [f \in (DOMAIN note \ {"projectId"}) \cup {"projectIds"} |->
             IF f = "projectIds" THEN <<note.projectId>> ELSE note[f]]
    ELSE note

\* getStoredNotes: getFromStorage for the notes key.  The callback of
\* parsed.map reads note.projectId, which throws for null: the catch removes
\* the key and returns [].
getStoredNotes(slot) ==
    IF IsRawText(slot) \/ Includes(slot, Null)
    THEN [items |-> <<>>, slot |-> <<>>]
    ELSE [items |-> SelectSeq([i \in 1..Len(slot) |-> MigratedNote(slot[i])],
                              IsValidItem),
          slot |-> slot]

\* ------------------------------------------------------------ categories
PREDEFINED_CATEGORIES == <<
    [name |-> "Trabajo",  color |-> "cat-sky"],
    [name |-> "Personal", color |-> "cat-green"],
    [name |-> "Hogar",    color |-> "cat-amber"],
    [name |-> "Estudios", color |-> "cat-indigo"],
    [name |-> "Salud",    color |-> "cat-rose"],
    [name |-> "Compras",  color |-> "cat-teal"],
    [name |-> "Ocio",     color |-> "cat-lime"],
    [name |-> "Urgente",  color |-> "cat-red"],
    [name |-> "Idea",     color |-> "cat-violet"] >>

CatName(c) == c.name

\* defaultCats of register and getGeneralCategories
DefaultCats == [masterList |-> PREDEFINED_CATEGORIES,
                active     |-> MapSeq(CatName, PREDEFINED_CATEGORIES)]

\* ------------------------------------------------- colours of categories
PALETTE_COLORS == <<
    "cat-sky", "cat-green", "cat-amber", "cat-indigo", "cat-rose", "cat-teal",
    "cat-fuchsia", "cat-lime", "cat-cyan", "cat-violet", "cat-red", "cat-orange",
    "cat-yellow", "cat-emerald", "cat-blue", "cat-purple", "cat-pink" >>

\* str.charCodeAt(i) for i = 0 .. str.length - 1, of the names of the model
CharCodes(str) ==
    CASE str = ""          -> <<>>
      [] str = "Idea"      -> <<73, 100, 101, 97>>
      [] str = "Trabajo"   -> <<84, 114, 97, 98, 97, 106, 111>>
      [] str = "Diseno"    -> <<68, 105, 115, 101, 110, 111>>
      [] str = "Viajes"    -> <<86, 105, 97, 106, 101, 115>>
      [] str = "Gimnasio"  -> <<71, 105, 109, 110, 97, 115, 105, 111>>
      [] str = "Reuniones" -> <<82, 101, 117, 110, 105, 111, 110, 101, 115>>

\* A Number holding an integer n is the pair [hi, lo] with n = hi * 2^27 + lo
\* and 0 <= lo < 2^27: `hash` leaves the 32-bit range between two shifts,
\* and only its low 27 bits enter the next shift.
Two27 == 2^27

Two22 == 2^22

Num(hi, lo) == [hi |-> hi, lo |-> lo]

\* hash << 5: ToInt32(hash) shifted left by five bits, as a signed 32-bit value
ShiftLeft5(hash) ==
    LET top == hash.lo \div Two22       \* bits 27..31 of the result
    IN Num(IF top >= 16 THEN top - 32 ELSE top, (hash.lo % Two22) * 32)

\* a - b
Minus(a, b) ==
    IF a.lo >= b.lo THEN Num(a.hi - b.hi, a.lo - b.lo)
    ELSE Num(a.hi - b.hi - 1, a.lo - b.lo + Two27)

\* code + a, for a char code (0 .. 65535)
PlusCode(code, a) ==
    IF a.lo + code < Two27 THEN Num(a.hi, a.lo + code)
    ELSE Num(a.hi + 1, a.lo + code - Two27)

\* an absolute value that is forgotten
NoAbs(a) == a

\* Math.abs
Abs(a) ==
    IF a.hi >= 0 THEN a
    ELSE IF a.lo = 0 THEN Num(-a.hi, 0)
    ELSE Num(-a.hi - 1, Two27 - a.lo)

\* a % m as JavaScript computes it: the sign of the result is the sign of a
Rem(a, m) ==
    LET mag == IF a.hi >= 0 THEN a
               ELSE IF a.lo = 0 THEN Num(-a.hi, 0)
               ELSE Num(-a.hi - 1, Two27 - a.lo)
        r == (((mag.hi % m) * (Two27 % m)) + (mag.lo % m)) % m
    IN IF a.hi >= 0 THEN r ELSE -r

\* the for loop of stringToHash
RECURSIVE HashLoop(_, _)
HashLoop(codes, hash) ==
    IF codes = <<>> THEN hash
    ELSE HashLoop(Tail(codes), PlusCode(Head(codes), Minus(ShiftLeft5(hash), hash)))

stringToHash(str) == Abs(HashLoop(CharCodes(str), Num(0, 0)))

\* PALETTE_COLORS[i] for a 0-based index i; "undefined" outside the array
PaletteAt(i) ==
    IF i \in 0..(Len(PALETTE_COLORS) - 1) THEN PALETTE_COLORS[i + 1] ELSE "undefined"

\* predefined?.color || PALETTE_COLORS[stringToHash(catName) % PALETTE_COLORS.length]
ColorOf(catName) ==
    LET idx == FindIndex(PREDEFINED_CATEGORIES, LAMBDA p : p.name = catName)
    IN IF idx # 0 THEN PREDEFINED_CATEGORIES[idx].color
       ELSE PaletteAt(Rem(stringToHash(catName), Len(PALETTE_COLORS)))

\* ------------------------------------------------ migration of categories
\* What is stored as somebody's categories.  The current shape is the record
\* [masterList, active] of CategorySettings; the older shapes and a missing
\* value are records with a `legacy` field:
\*   LegacyList(names)             a bare array of names
\*   LegacySettings(names, active) { masterList: names, active? } with at least
\*                                 one name (active: <<>> when the field is missing)
\*   Absent                        undefined / null
LegacyList(names) == [legacy |-> "list", names |-> names]

LegacySettings(names, active) == [legacy |-> "settings", names |-> names, active |-> active]

Absent == [legacy |-> "absent"]

IsA(x, kind) == "legacy" \in DOMAIN x /\ x.legacy = kind

\* { masterList: [], active: [] }
EmptyCats == [masterList |-> <<>>, active |-> <<>>]

\* oldCategories.map(catName => ({ name: catName, color: ... }))
Colored(names) ==
    [i \in 1..Len(names) |-> [name |-> names[i], color |-> ColorOf(names[i])]]

\* a last line that tests the value itself and not its masterList
EmptyUnlessArray(x) == EmptyCats

\* the last line of migrateCategories
AsItIsOrEmpty(x) == IF "masterList" \in DOMAIN x THEN x ELSE EmptyCats

migrateCategories(oldCategories) ==
    IF IsA(oldCategories, "list") /\ oldCategories.names # <<>>
    THEN [masterList |-> Colored(oldCategories.names), active |-> oldCategories.names]
    ELSE IF IsA(oldCategories, "settings") /\ oldCategories.names # <<>>
    THEN [masterList |-> Colored(oldCategories.names),
          active |-> IF oldCategories.active # <<>> THEN oldCategories.active[1]
                     ELSE oldCategories.names]
    ELSE AsItIsOrEmpty(oldCategories)

\* ------------------------------------------------------------ auth & user
\* a projection that forgets to drop the password
WholeUser(user) == user

\* const { password, ...userForSession } = user
PublicUserOf(user) == [f \in DOMAIN user \ {"password"} |-> user[f]]

\* a merge in which the fields of the first record win
SpreadKeepingFirst(a, b) ==
    [f \in DOMAIN a \cup DOMAIN b |-> IF f \in DOMAIN a THEN a[f] ELSE b[f]]

\* { ...a, ...b }
Spread(a, b) == [f \in DOMAIN a \cup DOMAIN b |-> IF f \in DOMAIN b THEN b[f] ELSE a[f]]

\* all[userId] = categories
WithCats(all, userId, categories) ==
    [k \in DOMAIN all \cup {userId} |-> IF k = userId THEN categories ELSE all[k]]

\* a lookup that compares the wrong field and so never matches
UsernameNeverTaken(storedUsers, username) == FALSE

\* users.find(u => u.username === username)
UsernameTaken(storedUsers, username) ==
    \E i \in 1..Len(storedUsers) : storedUsers[i].username = username

register(username, password_plaintext) ==
    LET stored == getFromStorage(users)
    IN
    IF UsernameTaken(stored.items, username)
    THEN /\ last' = Called("register", <<username, password_plaintext>>, <<>>)
         /\ users' = stored.slot
         /\ UNCHANGED <<traversal, storedCustomTabs, view, calls, session, notes, groups, projects, userCats,
                        selectedGroup, ctr>>
    ELSE /\ ctr.users < MaxUsers
         /\ LET newUser == [id |-> ctr.users + 1, username |-> username,
                            password |-> password_plaintext]
            IN /\ userCats' = WithCats(userCats, newUser.id, DefaultCats)
               /\ users' = Append(stored.items, newUser)
               /\ last' = Called("register", <<username, password_plaintext>>,
                                 <<PublicUserOf(newUser)>>)
         /\ ctr' = [ctr EXCEPT !.users = @ + 1]
         /\ UNCHANGED <<traversal, storedCustomTabs, view, calls, session, notes, groups, projects, selectedGroup>>

\* the record of a login call also keeps the call that came right before it
LoginCalled(a, ret) ==
    [op |-> "login", a |-> a, ret |-> ret, removed |-> {},
     after |-> [op |-> last.op, a |-> last.a, ret |-> last.ret]]

login(username, password_plaintext) ==
    LET stored == getFromStorage(users)
        idx == FindIndex(stored.items, LAMBDA u : u.username = username
                                                  /\ u.password = password_plaintext)
    IN IF idx = 0
       THEN /\ last' = LoginCalled(<<username, password_plaintext>>, <<>>)
            /\ users' = stored.slot
            /\ UNCHANGED <<traversal, storedCustomTabs, view, calls, session, notes, groups, projects, userCats,
                           selectedGroup, ctr>>
       ELSE /\ session' = <<PublicUserOf(stored.items[idx])>>
            /\ last' = LoginCalled(<<username, password_plaintext>>,
                                   <<PublicUserOf(stored.items[idx])>>)
            /\ users' = stored.slot
            /\ UNCHANGED <<traversal, storedCustomTabs, view, calls, notes, groups, projects, userCats,
                           selectedGroup, ctr>>

logout ==
    /\ session' = <<>>
    /\ last' = Called("logout", <<>>, <<>>)
    /\ UNCHANGED <<traversal, storedCustomTabs, view, calls, users, notes, groups, projects, userCats, selectedGroup, ctr>>

\* a session check that keeps a session it cannot match with a stored user
KeepsUnmatchedSession(slot) == slot

\* storage.removeItem(SESSION_KEY) of getCurrentUser
ClearedSession(slot) == <<>>

getCurrentUser ==
    IF session = <<>>
    THEN \* if (!userJson) return null
         /\ last' = Called("getCurrentUser", <<>>, <<>>)
         /\ UNCHANGED <<traversal, storedCustomTabs, view, calls, users, session, notes, groups, projects, userCats,
                        selectedGroup, ctr>>
    ELSE IF IsRawText(session) /\ ~Parses(session[1].raw)
    THEN \* JSON.parse throws: catch
         /\ session' = ClearedSession(session)
         /\ last' = Removed("getCurrentUser", <<>>, <<>>, Range(session) \ Range(session'))
         /\ UNCHANGED <<traversal, storedCustomTabs, view, calls, users, notes, groups, projects, userCats,
                        selectedGroup, ctr>>
    ELSE \* user.id is undefined when the parsed value has no id
         LET stored == getFromStorage(users)
             idx == IF "id" \in DOMAIN session[1]
                    THEN FindIndex(stored.items, LAMBDA u : u.id = session[1].id)
                    ELSE 0
         IN /\ IF idx = 0
               THEN /\ session' = ClearedSession(session)
                    /\ last' = Removed("getCurrentUser", <<>>, <<>>,
                                       Range(session) \ Range(session'))
               ELSE /\ session' = session
                    /\ last' = Called("getCurrentUser", <<>>,
                                      <<PublicUserOf(stored.items[idx])>>)
            /\ users' = stored.slot
            /\ UNCHANGED <<traversal, storedCustomTabs, view, calls, notes, groups, projects, userCats,
                           selectedGroup, ctr>>

\* the optional fields of a User that the model carries
OptionalFields == {"company"}

\* the value of `trimmedCompany || undefined` for an empty company
Undefined == "undefined"

\* JSON.stringify of a record: a field whose value is undefined is left out
Stringify(record) ==
    [f \in {g \in DOMAIN record : g \notin OptionalFields \/ record[g] # Undefined} |->
        record[f]]

updateUser(updatedUser) ==
    LET stored == getFromStorage(users)
        userIndex == FindIndex(stored.items, LAMBDA u : u.id = updatedUser.id)
    IN IF userIndex = 0
       THEN /\ last' = Called("updateUser", <<updatedUser>>, <<>>)
            /\ users' = stored.slot
            /\ UNCHANGED <<traversal, storedCustomTabs, view, calls, session, notes,
                           groups, projects, userCats, selectedGroup, ctr>>
       ELSE LET fullUser == Spread(stored.items[userIndex], updatedUser)
            IN /\ users' = [stored.items EXCEPT ![userIndex] = Stringify(fullUser)]
               /\ session' = <<Stringify(PublicUserOf(fullUser))>>
               /\ last' = Called("updateUser", <<updatedUser>>,
                                 <<PublicUserOf(fullUser)>>)
               /\ UNCHANGED <<traversal, storedCustomTabs, view, calls, notes, groups, projects, userCats, selectedGroup, ctr>>

\* ----------------------------------------------------------------- notes
\* The record addNote stores: { id: uuid(), createdAt, ...noteData, sharedWith: ... }.
\* The spread of noteData comes after id, so an id carried by noteData wins.
NewNote(freshId, noteData) ==
    [id         |-> IF "id" \in DOMAIN noteData THEN noteData.id ELSE freshId,
     ownerId    |-> noteData.ownerId,
     categories |-> noteData.categories,
     sharedWith |-> IF "sharedWith" \in DOMAIN noteData
                    THEN noteData.sharedWith
                    ELSE [users |-> <<>>, groups |-> <<>>],
     projectIds |-> noteData.projectIds,
     parentId   |-> noteData.parentId]

addNote(noteData) ==
    /\ LET newNote == NewNote(ctr.notes + 1, noteData)
       IN /\ notes' = Append(getStoredNotes(notes).items, newNote)
          /\ last' = Called("addNote", <<noteData>>, <<newNote>>)
    /\ ctr' = [ctr EXCEPT !.notes = @ + 1]
    /\ UNCHANGED <<traversal, storedCustomTabs, view, calls, users, session, groups, projects, userCats, selectedGroup>>

\* childrenMap of deleteNote: parentId -> ids of its children, in ledger order
ChildrenMap(allNotes) ==
    [p \in {allNotes[i].parentId : i \in 1..Len(allNotes)} \ {NoParent} |->
        LET kids == SelectSeq(allNotes, LAMBDA n : n.parentId = p)
        IN [i \in 1..Len(kids) |-> kids[i].id]]

\* a for loop without the test of idsToDelete: every child is enqueued
RECURSIVE VisitChildrenUnseen(_, _, _)
VisitChildrenUnseen(children, queue, idsToDelete) ==
    IF children = <<>> THEN [queue |-> queue, idsToDelete |-> idsToDelete]
    ELSE VisitChildrenUnseen(Tail(children), Append(queue, Head(children)),
                             idsToDelete \cup {Head(children)})

\* a traversal that stops at the direct children (they are not enqueued)
VisitChildrenNoEnqueue(children, queue, idsToDelete) ==
    [queue |-> queue, idsToDelete |-> idsToDelete \cup Range(children)]

\* the for loop over the children of the note taken from the queue
RECURSIVE VisitChildren(_, _, _)
VisitChildren(children, queue, idsToDelete) ==
    IF children = <<>> THEN [queue |-> queue, idsToDelete |-> idsToDelete]
    ELSE LET childId == Head(children)
         IN IF childId \notin idsToDelete
            THEN VisitChildren(Tail(children), Append(queue, childId),
                               idsToDelete \cup {childId})
            ELSE VisitChildren(Tail(children), queue, idsToDelete)

\* the while loop of deleteNote
RECURSIVE Traverse(_, _, _)
Traverse(childrenMap, queue, idsToDelete) ==
    IF queue = <<>> THEN idsToDelete
    ELSE LET currentId == Head(queue)
             rest      == Tail(queue)
         IN IF currentId \in DOMAIN childrenMap
            THEN LET r == VisitChildren(childrenMap[currentId], rest, idsToDelete)
                 IN Traverse(childrenMap, r.queue, r.idsToDelete)
            ELSE Traverse(childrenMap, rest, idsToDelete)

IdsToDelete(allNotes, noteId) == Traverse(ChildrenMap(allNotes), <<noteId>>, {noteId})

deleteNote(noteId) ==
    /\ LET idsToDelete == IdsToDelete(notes, noteId)
       IN notes' = SelectSeq(notes, LAMBDA n : n.id \notin idsToDelete)
    /\ last' = Removed("deleteNote", <<noteId>>, <<>>, Gone)
    /\ UNCHANGED <<traversal, storedCustomTabs, view, calls, users, session, groups, projects, userCats, selectedGroup, ctr>>

\* deleteNote, one iteration of its while loop at a time.  The locals of the
\* call are in `traversal`; pushed lists every id put on the queue, in order.
deleteNoteBegin(noteId) ==
    /\ traversal = <<>>
    /\ traversal' = <<[noteId |-> noteId, queue |-> <<noteId>>,
                       idsToDelete |-> {noteId}, pushed |-> <<noteId>>]>>
    /\ UNCHANGED <<users, session, notes, groups, projects, userCats,
                   selectedGroup, ctr, last, storedCustomTabs, view, calls>>

\* queue.shift() and the for loop over the children of that id
deleteNoteLoop(maxPushes) ==
    /\ traversal # <<>>
    /\ traversal[1].queue # <<>>
    /\ Len(traversal[1].pushed) < maxPushes
    /\ LET t == traversal[1]
           currentId == Head(t.queue)
           rest == Tail(t.queue)
           childrenMap == ChildrenMap(getStoredNotes(notes).items)
           r == IF currentId \in DOMAIN childrenMap
                THEN VisitChildren(childrenMap[currentId], rest, t.idsToDelete)
                ELSE [queue |-> rest, idsToDelete |-> t.idsToDelete]
       IN traversal' = <<[t EXCEPT !.queue = r.queue,
                                   !.idsToDelete = r.idsToDelete,
                                   !.pushed = @ \o SubSeq(r.queue, Len(rest) + 1,
                                                          Len(r.queue))]>>
    /\ UNCHANGED <<users, session, notes, groups, projects, userCats,
                   selectedGroup, ctr, last, storedCustomTabs, view, calls>>

\* the queue is empty: the remaining notes are saved and the call returns
deleteNoteEnd ==
    /\ traversal # <<>>
    /\ traversal[1].queue = <<>>
    /\ notes' = SelectSeq(getStoredNotes(notes).items,
                          LAMBDA n : n.id \notin traversal[1].idsToDelete)
    /\ traversal' = <<>>
    /\ last' = Removed("deleteNote", <<traversal[1].noteId>>, <<>>, Gone)
    /\ UNCHANGED <<users, session, groups, projects, userCats, selectedGroup, ctr,
                   storedCustomTabs, view, calls>>

\* -------------------------------------------------------------- projects
createProject(ownerId, categories) ==
    /\ LET newProject == [id |-> ctr.projects + 1, ownerId |-> ownerId,
                          tabs |-> <<>>, categories |-> categories]
       IN /\ projects' = Append(getFromStorage(projects).items, newProject)
          /\ last' = Called("createProject", <<ownerId, categories>>, <<newProject>>)
    /\ ctr' = [ctr EXCEPT !.projects = @ + 1]
    /\ UNCHANGED <<traversal, storedCustomTabs, view, calls, users, session, notes, groups, userCats, selectedGroup>>

\* (n.projectIds || [])
ProjectIdsOf(n) == IF "projectIds" \in DOMAIN n THEN n.projectIds ELSE <<>>

\* a filter that drops only the notes associated with projectId alone
NotesNotOnlyInProject(allNotes, projectId) ==
    SelectSeq(allNotes, LAMBDA n : ProjectIdsOf(n) # <<projectId>>)

\* the filter of deleteProject: keep the notes not associated with projectId
NotesOutsideProject(allNotes, projectId) ==
    SelectSeq(allNotes, LAMBDA n : ~Includes(ProjectIdsOf(n), projectId))

deleteProject(projectId) ==
    /\ projects' = SelectSeq(getFromStorage(projects).items, LAMBDA p : p.id # projectId)
    /\ notes' = NotesOutsideProject(getStoredNotes(notes).items, projectId)
    /\ last' = Removed("deleteProject", <<projectId>>, <<>>, Gone)
    /\ UNCHANGED <<traversal, storedCustomTabs, view, calls, users, session, groups, userCats, selectedGroup, ctr>>

\* ------------------------------------------------------------ categories ops
\* project.categories / generalCategories with categoryName filtered out
WithoutCategory(settings, categoryName) ==
    [masterList |-> SelectSeq(settings.masterList, LAMBDA c : c.name # categoryName),
     active     |-> SelectSeq(settings.active, LAMBDA c : c # categoryName)]

\* getGeneralCategories: the value returned and the map it leaves in storage.
GeneralCategories(all, userId) ==
    IF userId \notin DOMAIN all \/ IsA(all[userId], "absent")
    THEN \* if (!data)
         [data |-> DefaultCats, all |-> WithCats(all, userId, DefaultCats)]
    ELSE IF IsA(all[userId], "settings") /\ all[userId].names # <<>>
    THEN \* data.masterList && typeof data.masterList[0] === 'string'
         LET migratedData == migrateCategories(all[userId])
         IN [data |-> migratedData, all |-> WithCats(all, userId, migratedData)]
    ELSE [data |-> all[userId], all |-> all]

getGeneralCategories(userId) ==
    /\ LET g == GeneralCategories(userCats, userId)
       IN /\ userCats' = g.all
          /\ last' = Called("getGeneralCategories", <<userId>>, <<g.data>>)
    /\ UNCHANGED <<traversal, storedCustomTabs, view, calls, users, session, notes, groups, projects, selectedGroup, ctr>>

saveGeneralCategories(userId, categories) ==
    /\ userCats' = WithCats(userCats, userId, categories)
    /\ last' = Called("saveGeneralCategories", <<userId, categories>>, <<>>)
    /\ UNCHANGED <<traversal, storedCustomTabs, view, calls, users, session, notes, groups, projects, selectedGroup, ctr>>

\* updateProject: full-record replace by id, nothing when the id is not stored
UpdatedProjects(storedProjects, updatedProject) ==
    LET idx == FindIndex(storedProjects, LAMBDA p : p.id = updatedProject.id)
    IN IF idx = 0 THEN storedProjects
       ELSE [storedProjects EXCEPT ![idx] = updatedProject]

\* what updateProject leaves under the projects key: the loaded array is
\* saved only when the id was found in it
SavedProjects(slot, updatedProject) ==
    LET stored == getFromStorage(slot)
    IN IF \E i \in 1..Len(stored.items) : stored.items[i].id = updatedProject.id
       THEN UpdatedProjects(stored.items, updatedProject)
       ELSE stored.slot

\* a scrub that leaves the notes associated with a project alone
StripCategoryOutsideProjects(note, categoryName) ==
    IF Includes(note.categories, categoryName) /\ note.projectIds = <<>>
    THEN [note EXCEPT !.categories = SelectSeq(@, LAMBDA c : c # categoryName)]
    ELSE note

\* the callback of allNotes.map in deleteCategory
StripCategory(note, categoryName) ==
    IF Includes(note.categories, categoryName)
    THEN [note EXCEPT !.categories = SelectSeq(@, LAMBDA c : c # categoryName)]
    ELSE note

deleteCategory(userId, categoryName, projectId) ==
    /\ IF projectId # NoProject
       THEN \* getProjectsForUser(userId).find(p => p.id === projectId)
            LET idx == FindIndex(projects, LAMBDA p : p.ownerId = userId
                                                      /\ p.id = projectId)
            IN /\ projects' =
                    IF idx = 0 THEN projects
                    ELSE UpdatedProjects(projects,
                           [projects[idx] EXCEPT !.categories =
                               WithoutCategory(@, categoryName)])
               /\ userCats' = userCats
       ELSE LET g == GeneralCategories(userCats, userId)
            IN /\ userCats' = WithCats(g.all, userId,
                                       WithoutCategory(g.data, categoryName))
               /\ projects' = projects
    /\ notes' = [i \in 1..Len(notes) |-> StripCategory(notes[i], categoryName)]
    /\ last' = Removed("deleteCategory", <<userId, categoryName, projectId>>, <<>>, Gone)
    /\ UNCHANGED <<traversal, storedCustomTabs, view, calls, users, session, groups, selectedGroup, ctr>>

\* ---------------------------------------------------------------- groups
createGroup(ownerId) ==
    /\ LET newGroup == [id |-> ctr.groups + 1, ownerId |-> ownerId,
                        members |-> <<[userId |-> ownerId, role |-> "admin"]>>,
                        pendingMemberIds |-> <<>>]
       IN /\ groups' = Append(getFromStorage(groups).items, newGroup)
          /\ last' = Called("createGroup", <<ownerId>>, <<newGroup>>)
    /\ ctr' = [ctr EXCEPT !.groups = @ + 1]
    /\ UNCHANGED <<traversal, storedCustomTabs, view, calls, users, session, notes, projects, userCats, selectedGroup>>

\* a membership test that only knows the owner
IsOwnerOnly(group, userId) == group.ownerId = userId

\* group.members.some(m => m.userId === userId)
IsMember(group, userId) ==
    \E i \in 1..Len(group.members) : group.members[i].userId = userId

\* a replace that appends the record when its id is not stored
UpsertedGroups(storedGroups, updatedGroup) ==
    IF \E i \in 1..Len(storedGroups) : storedGroups[i].id = updatedGroup.id
    THEN [i \in 1..Len(storedGroups) |->
             IF storedGroups[i].id = updatedGroup.id THEN updatedGroup ELSE storedGroups[i]]
    ELSE Append(storedGroups, updatedGroup)

\* updateGroup: full-record replace by id, nothing when the id is not stored
UpdatedGroups(storedGroups, updatedGroup) ==
    LET idx == FindIndex(storedGroups, LAMBDA g : g.id = updatedGroup.id)
    IN IF idx = 0 THEN storedGroups
       ELSE [storedGroups EXCEPT ![idx] = updatedGroup]

\* a test that takes no request as recorded
NeverPending(group, userId) == FALSE

\* (group.pendingMemberIds || []).includes(userId)
IsPending(group, userId) == Includes(group.pendingMemberIds, userId)

\* the GroupLedger requestToJoinGroup leaves in storage
GroupsAfterRequest(storedGroups, groupId, userId) ==
    LET idx == FindIndex(storedGroups, LAMBDA g : g.id = groupId)
    IN IF /\ idx # 0
          /\ ~IsMember(storedGroups[idx], userId)
          /\ ~IsPending(storedGroups[idx], userId)
       THEN UpdatedGroups(storedGroups,
                [storedGroups[idx] EXCEPT !.pendingMemberIds = Append(@, userId)])
       ELSE storedGroups

requestToJoinGroup(groupId, userId) ==
    /\ groups' = GroupsAfterRequest(groups, groupId, userId)
    /\ last' = Called("requestToJoinGroup", <<groupId, userId>>, <<>>)
    /\ UNCHANGED <<traversal, storedCustomTabs, view, calls, users, session, notes, projects, userCats, selectedGroup, ctr>>

\* the ids of the groups that list userId as a member or as pending
GroupIdsOfMemberOrPending(storedGroups, userId) ==
    LET mine == SelectSeq(storedGroups,
                          LAMBDA g : IsMember(g, userId) \/ IsPending(g, userId))
    IN [i \in 1..Len(mine) |-> mine[i].id]

\* getGroupsForUser(userId).map(g => g.id)
GroupIdsOfUser(storedGroups, userId) ==
    LET mine == SelectSeq(storedGroups, LAMBDA g : IsMember(g, userId))
    IN [i \in 1..Len(mine) |-> mine[i].id]

\* a scrub that empties the group list only when groupId is its single entry
ScrubOnlyGroup(note, groupId) ==
    IF note.sharedWith.groups = <<groupId>>
    THEN [note EXCEPT !.sharedWith.groups = <<>>]
    ELSE note

\* the callback of notes.forEach in deleteGroup
ScrubGroup(note, groupId) ==
    IF Includes(note.sharedWith.groups, groupId)
    THEN [note EXCEPT !.sharedWith.groups = SelectSeq(@, LAMBDA g : g # groupId)]
    ELSE note

deleteGroup(groupId) ==
    /\ groups' = SelectSeq(groups, LAMBDA g : g.id # groupId)
    /\ notes' = [i \in 1..Len(notes) |-> ScrubGroup(notes[i], groupId)]
    /\ last' = Removed("deleteGroup", <<groupId>>, <<>>, Gone)
    /\ UNCHANGED <<traversal, storedCustomTabs, view, calls, users, session, projects, userCats, selectedGroup, ctr>>

\* updateNoteSharing: replaces sharedWith of the first note with that id
updateNoteSharing(noteId, sharingData) ==
    LET idx == FindIndex(notes, LAMBDA n : n.id = noteId)
    IN IF idx = 0
       THEN /\ last' = Called("updateNoteSharing", <<noteId, sharingData>>, <<>>)
            /\ UNCHANGED <<traversal, storedCustomTabs, view, calls, users, session, notes, groups, projects, userCats,
                           selectedGroup, ctr>>
       ELSE /\ notes' = [notes EXCEPT ![idx].sharedWith = sharingData]
            /\ last' = Called("updateNoteSharing", <<noteId, sharingData>>,
                              <<notes'[idx]>>)
            /\ UNCHANGED <<traversal, storedCustomTabs, view, calls, users, session, groups, projects, userCats,
                           selectedGroup, ctr>>

\* a sharedNotes filter without the ownership test
IsSharedEvenIfOwned(n, userId, userGroups) ==
    \/ Includes(n.sharedWith.users, userId)
    \/ \E i \in 1..Len(n.sharedWith.groups) :
          Includes(userGroups, n.sharedWith.groups[i])

\* the predicate of the sharedNotes filter
IsShared(n, userId, userGroups) ==
    /\ n.ownerId # userId
    /\ \/ Includes(n.sharedWith.users, userId)
       \/ \E i \in 1..Len(n.sharedWith.groups) :
             Includes(userGroups, n.sharedWith.groups[i])

getNotesForUser(userId) ==
    LET allNotes == getStoredNotes(notes).items
        userGroups == GroupIdsOfUser(getFromStorage(groups).items, userId)
    IN [myNotes |-> SelectSeq(allNotes, LAMBDA n : n.ownerId = userId),
        sharedNotes |-> SelectSeq(allNotes, LAMBDA n : IsShared(n, userId, userGroups))]

\* ------------------------------------------------- group manager modal
\* fetchData: a selected group is re-read from the ledger (null when gone)
Reselected(sel, storedGroups) ==
    IF sel = <<>> THEN <<>>
    ELSE LET idx == FindIndex(storedGroups, LAMBDA g : g.id = sel[1].id)
         IN IF idx = 0 THEN <<>> ELSE <<storedGroups[idx]>>

\* a click on a group of the list: setSelectedGroup(group)
selectGroup(i) ==
    /\ i \in 1..Len(groups)
    /\ selectedGroup' = <<groups[i]>>
    /\ last' = Called("selectGroup", <<groups[i].id>>, <<>>)
    /\ UNCHANGED <<traversal, storedCustomTabs, view, calls, users, session, notes, groups, projects, userCats, ctr>>

\* a guard that lets the owner's own role be toggled
MayToggleAnyMember(sel, currentUserId, userId) ==
    sel # <<>> /\ sel[1].ownerId = currentUserId

\* the first line of handleToggleMemberRole, negated
MayToggle(sel, currentUserId, userId) ==
    sel # <<>> /\ sel[1].ownerId = currentUserId /\ sel[1].ownerId # userId

handleToggleMemberRole(currentUserId, userId) ==
    /\ MayToggle(selectedGroup, currentUserId, userId)
    /\ LET memberIndex == FindIndex(selectedGroup[1].members,
                                    LAMBDA m : m.userId = userId)
       IN /\ memberIndex # 0
          /\ LET updatedGroup ==
                   [selectedGroup[1] EXCEPT !.members[memberIndex].role =
                       IF @ = "admin" THEN "member" ELSE "admin"]
             IN groups' = UpdatedGroups(groups, updatedGroup)
    /\ selectedGroup' = Reselected(selectedGroup, groups')
    /\ last' = Called("handleToggleMemberRole", <<currentUserId, userId>>, <<>>)
    /\ UNCHANGED <<traversal, storedCustomTabs, view, calls, users, session, notes, projects, userCats, ctr>>

\* the Aprobar / Rechazar buttons are drawn for the pending ids of the selected
\* group that are registered users
handleRequest(currentUserId, userId, approve) ==
    /\ selectedGroup # <<>>
    /\ Includes(selectedGroup[1].pendingMemberIds, userId)
    /\ \E i \in 1..Len(users) : users[i].id = userId
    /\ \E i \in 1..Len(selectedGroup[1].members) :
          /\ selectedGroup[1].members[i].userId = currentUserId
          /\ selectedGroup[1].members[i].role = "admin"
    /\ LET pending == SelectSeq(selectedGroup[1].pendingMemberIds,
                                LAMBDA id : id # userId)
           updatedGroup ==
               [selectedGroup[1] EXCEPT
                   !.pendingMemberIds = pending,
                   !.members = IF approve
                               THEN Append(@, [userId |-> userId, role |-> "member"])
                               ELSE @]
       IN groups' = UpdatedGroups(groups, updatedGroup)
    /\ selectedGroup' = Reselected(selectedGroup, groups')
    /\ last' = Called("handleRequest", <<currentUserId, userId, approve>>, <<>>)
    /\ UNCHANGED <<traversal, storedCustomTabs, view, calls, users, session, notes, projects, userCats, ctr>>

\* ------------------------------------------- dashboard and project view
\* The handlers of a component run with the state of its last render.  The
\* effect of ProjectView that re-reads the projects (fetchProjectsAndUsers)
\* runs after a render, and a handler may run before it has.
\* one of the fixed tabs of the dashboard ('my', 'myShared', 'shared') or of
\* the project view ('all')
FixedTab(name) == [fixed |-> name]

\* useState of Dashboard (lines 39-40) and of ProjectView (lines 68-69, 82);
\* settings is the categories state of ProjectSettingsModal while it is
\* mounted
InitialView ==
    [customTabs |-> <<>>, activeTab |-> FixedTab("my"), projects |-> <<>>,
     selectedProject |-> <<>>, activeProjectTab |-> FixedTab("all"),
     settings |-> <<>>]

\* tab.value is a category name or an array of category names
OneCategory(name) == [str |-> name]

Categories(names) == [arr |-> names]

\* Array.prototype.join('+')
RECURSIVE Join(_)
Join(arr) ==
    IF arr = <<>> THEN ""
    ELSE IF Len(arr) = 1 THEN arr[1]
    ELSE arr[1] \o "+" \o Join(Tail(arr))

\* Array.isArray(tab.value) ? tab.value.join('+') : tab.value
JoinedValue(value) == IF "arr" \in DOMAIN value THEN Join(value.arr) ELSE value.str

\* a lookup that never finds the tab
NoExistingTab(tabs, id) == 0

\* tabs.find(t => t.id === newTab.id), as an index (0: none)
ExistingTab(tabs, id) == FindIndex(tabs, LAMBDA t : t.id = id)

\* Dashboard.fetchData: the loads of the Store it calls, and setCustomTabs
fetchData(userId) ==
    /\ notes' = getStoredNotes(notes).slot
    /\ groups' = getFromStorage(groups).slot
    /\ projects' = getFromStorage(projects).slot
    /\ users' = getFromStorage(users).slot
    /\ userCats' = GeneralCategories(userCats, userId).all
    /\ view' = [view EXCEPT !.customTabs = storedCustomTabs]
    /\ last' = Called("fetchData", <<userId>>, <<>>)
    /\ UNCHANGED <<session, selectedGroup, ctr, traversal, storedCustomTabs, calls>>

addCustomTab(tab) ==
    /\ LET \* { ...tab, id: ... }
           newTab == [f \in DOMAIN tab \cup {"id"} |->
                        IF f = "id" THEN JoinedValue(tab.value) ELSE tab[f]]
           idx == ExistingTab(view.customTabs, newTab.id)
       IN IF idx # 0
          THEN /\ view' = [view EXCEPT !.activeTab = view.customTabs[idx]]
               /\ storedCustomTabs' = storedCustomTabs
          ELSE LET updatedTabs == Append(view.customTabs, newTab)
               IN /\ view' = [view EXCEPT !.customTabs = updatedTabs,
                                          !.activeTab = newTab]
                  /\ storedCustomTabs' = updatedTabs
    /\ last' = Called("addCustomTab", <<tab>>, <<>>)
    /\ UNCHANGED <<users, session, notes, groups, projects, userCats, selectedGroup,
                   ctr, traversal, calls>>

\* the remove button of a tab of the list
removeCustomTab(tabId) ==
    /\ \E i \in 1..Len(view.customTabs) : view.customTabs[i].id = tabId
    /\ LET updatedTabs == SelectSeq(view.customTabs, LAMBDA t : t.id # tabId)
       IN /\ view' = [view EXCEPT
                        !.customTabs = updatedTabs,
                        !.activeTab = IF "id" \in DOMAIN @ /\ @.id = tabId
                                      THEN FixedTab("my") ELSE @]
          /\ storedCustomTabs' = updatedTabs
    /\ last' = Called("removeCustomTab", <<tabId>>, <<>>)
    /\ UNCHANGED <<users, session, notes, groups, projects, userCats, selectedGroup,
                   ctr, traversal, calls>>

\* a click on a fixed tab or on a tab of the list
setActiveTab(tab) ==
    /\ "fixed" \in DOMAIN tab \/ Includes(view.customTabs, tab)
    /\ view' = [view EXCEPT !.activeTab = tab]
    /\ last' = Called("setActiveTab", <<tab>>, <<>>)
    /\ UNCHANGED <<users, session, notes, groups, projects, userCats, selectedGroup,
                   ctr, traversal, storedCustomTabs, calls>>

\* ProjectView is mounted when the view mode becomes 'projects'
mountProjectView ==
    /\ view' = [view EXCEPT !.projects = <<>>, !.selectedProject = <<>>,
                            !.activeProjectTab = FixedTab("all"),
                            !.settings = <<>>]
    /\ last' = Called("mountProjectView", <<>>, <<>>)
    /\ UNCHANGED <<users, session, notes, groups, projects, userCats, selectedGroup,
                   ctr, traversal, storedCustomTabs, calls>>

\* the state of ProjectView after fetchProjectsAndUsers has loaded
\* userProjects, and after the reset of the active tab that follows a new
\* selectedProject (line 104); the settings dialog is rendered only while a
\* project is selected
ViewAfterFetch(v, userProjects) ==
    LET sel == v.selectedProject
        idx == IF sel = <<>> THEN 0
               ELSE FindIndex(userProjects, LAMBDA p : p.id = sel[1].id)
        refreshed == IF sel # <<>>
                     THEN IF idx = 0 THEN <<>> ELSE <<userProjects[idx]>>
                     ELSE IF userProjects # <<>> THEN <<userProjects[1]>> ELSE <<>>
    IN [v EXCEPT !.projects = userProjects,
                 !.selectedProject = refreshed,
                 !.activeProjectTab = IF sel = <<>> /\ refreshed = <<>>
                                      THEN @ ELSE FixedTab("all"),
                 !.settings = IF refreshed = <<>> THEN <<>> ELSE @]

\* the effect of ProjectView: fetchProjectsAndUsers
fetchProjectsAndUsers(userId) ==
    /\ LET stored == getFromStorage(projects)
           userProjects == SelectSeq(stored.items, LAMBDA p : p.ownerId = userId)
       IN /\ projects' = stored.slot
          /\ view' = ViewAfterFetch(view, userProjects)
    /\ users' = getFromStorage(users).slot
    /\ groups' = getFromStorage(groups).slot
    /\ last' = Called("fetchProjectsAndUsers", <<userId>>, <<>>)
    /\ UNCHANGED <<session, notes, userCats, selectedGroup, ctr, traversal,
                   storedCustomTabs, calls>>

\* a click on a project of the list: setSelectedProject(p)
setSelectedProject(i) ==
    /\ i \in 1..Len(view.projects)
    /\ view' = [view EXCEPT !.selectedProject = <<view.projects[i]>>]
    /\ last' = Called("setSelectedProject", <<view.projects[i].id>>, <<>>)
    /\ UNCHANGED <<users, session, notes, groups, projects, userCats, selectedGroup,
                   ctr, traversal, storedCustomTabs, calls>>

addProjectTab(tab) ==
    /\ view.selectedProject # <<>>
    /\ LET selectedProject == view.selectedProject[1]
           newTab == [id |-> ToString(selectedProject.id) \o "-" \o JoinedValue(tab.value),
                      name |-> tab.name,
                      type |-> IF "arr" \in DOMAIN tab.value
                               THEN "project-multi-category" ELSE "project-category",
                      value |-> tab.value]
           idx == ExistingTab(selectedProject.tabs, newTab.id)
       IN IF idx # 0
          THEN /\ view' = [view EXCEPT !.activeProjectTab = selectedProject.tabs[idx]]
               /\ projects' = projects
          ELSE LET updatedProject == [selectedProject EXCEPT !.tabs = Append(@, newTab)]
               IN /\ projects' = SavedProjects(projects, updatedProject)
                  /\ view' = [view EXCEPT !.selectedProject = <<updatedProject>>,
                                          !.activeProjectTab = newTab]
    /\ last' = Called("addProjectTab", <<tab>>, <<>>)
    /\ UNCHANGED <<users, session, notes, groups, userCats, selectedGroup, ctr,
                   traversal, storedCustomTabs, calls>>

\* the remove button of a tab of the selected project
removeProjectTab(tabId) ==
    /\ view.selectedProject # <<>>
    /\ \E i \in 1..Len(view.selectedProject[1].tabs) :
          view.selectedProject[1].tabs[i].id = tabId
    /\ LET selectedProject == view.selectedProject[1]
           updatedProject ==
               [selectedProject EXCEPT !.tabs = SelectSeq(@, LAMBDA t : t.id # tabId)]
       IN /\ projects' = SavedProjects(projects, updatedProject)
          /\ view' = [view EXCEPT
                        !.selectedProject = <<updatedProject>>,
                        !.activeProjectTab = IF "id" \in DOMAIN @ /\ @.id = tabId
                                             THEN FixedTab("all") ELSE @]
    /\ last' = Called("removeProjectTab", <<tabId>>, <<>>)
    /\ UNCHANGED <<users, session, notes, groups, userCats, selectedGroup, ctr,
                   traversal, storedCustomTabs, calls>>

\* a click on 'all' or on a tab of the selected project
setActiveProjectTab(tab) ==
    /\ \/ "fixed" \in DOMAIN tab
       \/ view.selectedProject # <<>> /\ Includes(view.selectedProject[1].tabs, tab)
    /\ view' = [view EXCEPT !.activeProjectTab = tab]
    /\ last' = Called("setActiveProjectTab", <<tab>>, <<>>)
    /\ UNCHANGED <<users, session, notes, groups, projects, userCats, selectedGroup,
                   ctr, traversal, storedCustomTabs, calls>>

\* the settings button of the selected project: ProjectSettingsModal is
\* mounted, useState(project.categories)
openSettings ==
    /\ view.selectedProject # <<>>
    /\ view.settings = <<>>
    /\ view' = [view EXCEPT !.settings = <<view.selectedProject[1].categories>>]
    /\ last' = Called("openSettings", <<>>, <<>>)
    /\ UNCHANGED <<users, session, notes, groups, projects, userCats, selectedGroup,
                   ctr, traversal, storedCustomTabs, calls>>

\* ProjectSettingsModal.handleSave with the categories as they were when the
\* dialog was opened: updateProject, onSave (fetchProjectsAndUsers), onClose
handleSave(userId) ==
    /\ view.selectedProject # <<>>
    /\ view.settings # <<>>
    /\ LET project == view.selectedProject[1]
           saved == SavedProjects(projects,
                                  [project EXCEPT !.categories = view.settings[1]])
           userProjects == SelectSeq(saved, LAMBDA p : p.ownerId = userId)
       IN /\ projects' = saved
          /\ view' = [ViewAfterFetch(view, userProjects) EXCEPT !.settings = <<>>]
    /\ users' = getFromStorage(users).slot
    /\ groups' = getFromStorage(groups).slot
    /\ last' = Called("handleSave", <<userId>>, <<>>)
    /\ UNCHANGED <<session, notes, userCats, selectedGroup, ctr, traversal,
                   storedCustomTabs, calls>>

\* NoteModal.handleDeleteCategory on a category of a project, in the project
\* view: deleteCategory, then onClose, which calls fetchData of the dashboard
handleDeleteCategory(userId, categoryName, projectId) ==
    /\ view.settings = <<>>
    /\ LET idx == FindIndex(projects, LAMBDA p : p.ownerId = userId
                                                 /\ p.id = projectId)
       IN projects' =
            IF idx = 0 THEN projects
            ELSE UpdatedProjects(projects,
                   [projects[idx] EXCEPT !.categories =
                       WithoutCategory(@, categoryName)])
    /\ notes' = [i \in 1..Len(notes) |-> StripCategory(notes[i], categoryName)]
    /\ userCats' = GeneralCategories(userCats, userId).all
    /\ view' = [view EXCEPT !.customTabs = storedCustomTabs]
    /\ last' = Removed("handleDeleteCategory", <<userId, categoryName, projectId>>,
                       <<>>, Gone)
    /\ UNCHANGED <<users, session, groups, selectedGroup, ctr, traversal,
                   storedCustomTabs, calls>>

\* ------------------------------------------------------- browser tabs
\* the browser tabs that have the application open
BrowserTabs == {1, 2}

\* no call is under way in any browser tab
NoCalls == [t \in BrowserTabs |-> <<>>]

\* ------------------------------------------------------------ initial state
\* The Store right after construction: every storage key absent.
Init ==
    /\ users = <<>>
    /\ session = <<>>
    /\ notes = <<>>
    /\ groups = <<>>
    /\ projects = <<>>
    /\ userCats = <<>>
    /\ selectedGroup = <<>>
    /\ traversal = <<>>
    /\ storedCustomTabs = <<>>
    /\ view = InitialView
    /\ calls = NoCalls
    /\ ctr = [users |-> 0, notes |-> 0, groups |-> 0, projects |-> 0]
    /\ last = Called("init", <<>>, <<>>)

\* ------------------------------------------------------------ accounts
\* Registration, login, logout, session lookup and profile update.
Next ==
    \/ \E u \in UserNames, p \in Passwords : register(u, p)
    \/ \E u \in UserNames, p \in Passwords : login(u, p)
    \/ logout
    \/ getCurrentUser
    \/ \E pu \in [id : UserIds, username : UserNames] : updateUser(pu)

Spec == Init /\ [][Next]_vars

\* C30: the operation that follows logout(), unless it is a login that
\* succeeds, leaves the session slot empty, and when it is getCurrentUser it
\* returns none.
C30_LoggedOutUntilLogin ==
    [][ (last.op = "logout" /\ ~(last'.op = "login" /\ last'.ret # <<>>))
        => /\ session' = <<>>
           /\ last'.op = "getCurrentUser" => last'.ret = <<>>
      ]_vars

\* C5: register with a username that is already in the UserLedger returns none
\* and leaves the UserLedger as it was.
C5_RegisterDuplicateRejected ==
    [][(last'.op = "register"
        /\ \E i \in 1..Len(users) : users[i].username = last'.a[1])
       => (last'.ret = <<>> /\ users' = users)]_vars

\* a register call returned none while a user of that name is stored
C5_Witness ==
    /\ last.op = "register"
    /\ last.ret = <<>>
    /\ \E i \in 1..Len(users) : users[i].username = last.a[1]

\* C6: login(username, password) right after a successful register(username,
\* password) returns the projection register returned, which has no password
\* field, and the session slot holds that projection.
C6_LoginAfterRegister ==
    (/\ last.op = "login"
     /\ last.after.op = "register"
     /\ last.after.ret # <<>>
     /\ last.after.a = last.a)
    => /\ last.ret # <<>>
       /\ last.ret = last.after.ret
       /\ "password" \notin DOMAIN last.ret[1]
       /\ last.ret[1].username = last.a[1]
       /\ session = last.ret

\* a login right after the successful registration of the second user
C6_Witness ==
    /\ last.op = "login"
    /\ last.after.op = "register"
    /\ last.after.ret # <<>>
    /\ last.after.a = last.a
    /\ last.ret # <<>>
    /\ Len(users) = 2

\* C7: no two users stored in the UserLedger have the same username.
C7_UsernamesUnique ==
    \A i, j \in 1..Len(users) : users[i].username = users[j].username => i = j

\* ------------------------------------------- migrateCategories, applied
MaxMigLen == 2   \* names in a stored list

MigNames == {"Trabajo", "Viajes", "Gimnasio", "Reuniones"}

NameLists == UNION {[1..n -> MigNames] : n \in 0..MaxMigLen}

\* the values migrateCategories is applied to
MigrateInputs ==
    {Absent, EmptyCats, DefaultCats}
    \cup {LegacyList(l) : l \in NameLists}
    \cup UNION {{LegacySettings(l, <<>>), LegacySettings(l, <<<<>>>>),
                 LegacySettings(l, <<<<l[1]>>>>)} : l \in NameLists \ {<<>>}}

applyMigrateCategories(x) ==
    /\ last' = Called("migrateCategories", <<x>>, <<migrateCategories(x)>>)
    /\ UNCHANGED <<traversal, storedCustomTabs, view, calls, users, session, notes, groups, projects, userCats,
                   selectedGroup, ctr>>

\* migrateCategories applied to what the call before it returned; the record
\* of this call keeps that call
applyMigrateCategoriesAgain ==
    /\ last.op = "migrateCategories"
    /\ last' = [op |-> "migrateCategories", a |-> last.ret,
                ret |-> <<migrateCategories(last.ret[1])>>, removed |-> {},
                after |-> [op |-> last.op, a |-> last.a, ret |-> last.ret]]
    /\ UNCHANGED <<traversal, storedCustomTabs, view, calls, users, session, notes, groups, projects, userCats,
                   selectedGroup, ctr>>

NextMigrate ==
    \/ \E x \in MigrateInputs : applyMigrateCategories(x)
    \/ applyMigrateCategoriesAgain

SpecMigrate == Init /\ [][NextMigrate]_vars

\* C13: migrateCategories(migrateCategories(x)) = migrateCategories(x) for the
\* legacy and the current shapes of x, the empty list and the absent value.
C13_MigrateIdempotent ==
    (last.op = "migrateCategories" /\ "after" \in DOMAIN last)
    => /\ last.a = last.after.ret
       /\ last.ret = last.after.ret

\* the second application followed the migration of a settings object whose
\* masterList was a list of names, one of them not predefined, with its own
\* active list
C13_Witness ==
    /\ last.op = "migrateCategories"
    /\ "after" \in DOMAIN last
    /\ IsA(last.after.a[1], "settings")
    /\ last.after.a[1].active # <<>>
    /\ "Gimnasio" \in Range(last.after.a[1].names)
    /\ last.ret[1].masterList # <<>>

\* |h| mod 17 for the names of the model that are not predefined, h being the
\* exact value of the iteration hash = charCode + ((hash << 5) - hash):
\*   Diseno 2047278520, Viajes -1732895766, Gimnasio -3185710725,
\*   Reuniones 6051081738
ExpectedIndex(name) ==
    CASE name = "Diseno"    -> 4
      [] name = "Viajes"    -> 1
      [] name = "Gimnasio"  -> 9
      [] name = "Reuniones" -> 10

IsPredefined(name) == \E i \in 1..Len(PREDEFINED_CATEGORIES) : PREDEFINED_CATEGORIES[i].name = name

\* C20: migrateCategories gives a name that is not predefined the colour
\* PALETTE_COLORS[|h| mod 17], h iterated as hash = charCode + ((hash << 5) - hash)
\* with the shift on 32-bit integers; the index is in 0..16, equal names get
\* equal colours, and a predefined name gets its predefined colour.
C20_HashColor ==
    (/\ last.op = "migrateCategories"
     /\ "legacy" \in DOMAIN last.a[1]
     /\ last.a[1].legacy \in {"list", "settings"})
    => LET names == last.a[1].names
           master == last.ret[1].masterList
       IN /\ Len(master) = Len(names)
          /\ \A i \in 1..Len(names) :
                /\ master[i].name = names[i]
                /\ \A j \in 1..Len(names) :
                      names[j] = names[i] => master[j].color = master[i].color
                /\ IF IsPredefined(names[i])
                   THEN \E k \in 1..Len(PREDEFINED_CATEGORIES) :
                           PREDEFINED_CATEGORIES[k] = master[i]
                   ELSE /\ Rem(stringToHash(names[i]), 17) \in 0..16
                        /\ master[i].color = PALETTE_COLORS[ExpectedIndex(names[i]) + 1]

\* a stored list of two names was migrated: one whose hash leaves the 32-bit
\* range and is negative, and a predefined one
C20_Witness ==
    /\ last.op = "migrateCategories"
    /\ last.a = <<LegacyList(<<"Gimnasio", "Trabajo">>)>>
    /\ last.ret[1].masterList[1].color = "cat-violet"
    /\ last.ret[1].masterList[2].color = "cat-sky"

\* ------------------------------------------- stored general categories
\* what the Store, now or in an earlier version, saved as a user's categories
StoredShapes ==
    {LegacyList(<<"Trabajo", "Gimnasio">>), LegacyList(<<"Viajes">>),
     LegacySettings(<<"Trabajo", "Gimnasio">>, <<>>),
     LegacySettings(<<"Gimnasio">>, <<<<>>>>),
     EmptyCats, DefaultCats}

NextGeneral ==
    \/ \E u \in {1, 2}, c \in StoredShapes : saveGeneralCategories(u, c)
    \/ \E u \in {1, 2} : getGeneralCategories(u)

SpecGeneral == Init /\ [][NextGeneral]_vars

\* masterList of {name, color} records and a list of active names
IsCurrentShape(x) ==
    /\ DOMAIN x = {"masterList", "active"}
    /\ \A i \in 1..Len(x.masterList) : DOMAIN x.masterList[i] = {"name", "color"}

\* C18: for every stored shape of a user's general categories (absent, bare
\* list of names, settings whose masterList holds names, current settings)
\* getGeneralCategories(userId) returns a value in the current shape, the
\* stored value equals the returned one afterwards, and a second call writes
\* nothing.
C18_GeneralCategoriesMigrated ==
    [][last'.op = "getGeneralCategories" =>
        LET userId == last'.a[1]
        IN /\ IsCurrentShape(last'.ret[1])
           /\ userId \in DOMAIN userCats'
           /\ userCats'[userId] = last'.ret[1]
           /\ (last.op = "getGeneralCategories" /\ last.a = last'.a)
                 => userCats' = userCats]_vars

\* ------------------------------------------------- the session slot
\* storage.setItem(key, text) by something else than this Store (another
\* version of the application, another program of the same origin).
setItem(key, slot) ==
    /\ key \in {"agenda_users", "agenda_notes", "agenda_groups", "agenda_projects",
                "agenda_session"}
    /\ users'    = IF key = "agenda_users"    THEN slot ELSE users
    /\ notes'    = IF key = "agenda_notes"    THEN slot ELSE notes
    /\ groups'   = IF key = "agenda_groups"   THEN slot ELSE groups
    /\ projects' = IF key = "agenda_projects" THEN slot ELSE projects
    /\ session'  = IF key = "agenda_session"  THEN slot ELSE session
    /\ last' = Called("setItem", <<key, slot>>, <<>>)
    /\ UNCHANGED <<traversal, storedCustomTabs, view, calls, userCats, selectedGroup, ctr>>

\* what the session key can be made to hold: a text that is not the JSON of a
\* user, or the JSON of a user projection (of a stored id or not, with the
\* stored username or not)
SessionSlots ==
    {RawText(t) : t \in RawTexts}
    \cup {<<pu>> : pu \in [id : 1..(MaxUsers + 1), username : UserNames \cup {"carol"}]}

NextSession ==
    \/ \E u \in UserNames : register(u, "pw1")
    \/ \E u \in UserNames : login(u, "pw1")
    \/ logout
    \/ getCurrentUser
    \/ \E sl \in SessionSlots : setItem("agenda_session", sl)
    \/ \E t \in RawTexts : setItem("agenda_users", RawText(t))

SpecSession == Init /\ [][NextSession]_vars

\* the user records of the UserLedger (none when the key holds a raw text)
LedgerUsers == IF IsRawText(users) THEN {} ELSE Range(users)

\* C12: getCurrentUser() returns none and leaves the session slot empty when the
\* slot is absent, holds a text that does not parse, or names no user id of the
\* UserLedger; otherwise it returns the UserLedger's projection, without
\* password, of the user the session names.
C12_GetCurrentUser ==
    [][last'.op = "getCurrentUser" =>
        LET named == IF session = <<>> \/ "id" \notin DOMAIN session[1] THEN {}
                     ELSE {u \in LedgerUsers : u.id = session[1].id}
        IN IF named = {}
           THEN last'.ret = <<>> /\ session' = <<>>
           ELSE \E u \in named :
                   last'.ret = <<[id |-> u.id, username |-> u.username]>>]_vars

\* getCurrentUser found a text that does not parse in the session slot of a
\* Store with registered users, and wiped it
C12_Witness ==
    /\ last.op = "getCurrentUser"
    /\ last.ret = <<>>
    /\ session = <<>>
    /\ Len(users) = 2
    /\ \E r \in last.removed : "raw" \in DOMAIN r /\ ~Parses(r.raw)

\* The Store after alice and bob have registered.
RegisteredUsers ==
    << [id |-> 1, username |-> "alice", password |-> "pw1"],
       [id |-> 2, username |-> "bob",   password |-> "pw2"] >>

InitRegistered ==
    /\ users = RegisteredUsers
    /\ session = <<>>
    /\ notes = <<>>
    /\ groups = <<>>
    /\ projects = <<>>
    /\ userCats = WithCats(WithCats(<<>>, 1, DefaultCats), 2, DefaultCats)
    /\ selectedGroup = <<>>
    /\ traversal = <<>>
    /\ storedCustomTabs = <<>>
    /\ view = InitialView
    /\ calls = NoCalls
    /\ ctr = [users |-> 2, notes |-> 0, groups |-> 0, projects |-> 0]
    /\ last = Called("init", <<>>, <<>>)

RegisteredIds == {users[i].id : i \in 1..Len(users)}

StoredNoteIds == {notes[i].id : i \in 1..Len(notes)}

StoredProjectIds == {projects[i].id : i \in 1..Len(projects)}

\* ------------------------------------------------- damaged ledger keys
\* what an operation took out of the four ledger keys
Wiped ==
    (Range(users) \ Range(users')) \cup (Range(notes) \ Range(notes'))
    \cup (Range(groups) \ Range(groups')) \cup (Range(projects) \ Range(projects'))

\* db.getAllUsers()
getAllUsers ==
    LET stored == getFromStorage(users)
    IN /\ users' = stored.slot
       /\ UNCHANGED <<traversal, storedCustomTabs, view, calls, session, notes, groups, projects, userCats, selectedGroup, ctr>>
       /\ last' = Removed("getAllUsers", <<>>, MapSeq(PublicUserOf, stored.items), Wiped)

\* db.getAllGroups()
getAllGroups ==
    LET stored == getFromStorage(groups)
    IN /\ groups' = stored.slot
       /\ UNCHANGED <<traversal, storedCustomTabs, view, calls, users, session, notes, projects, userCats, selectedGroup, ctr>>
       /\ last' = Removed("getAllGroups", <<>>, stored.items, Wiped)

\* db.getProjectsForUser(userId)
getProjectsForUser(userId) ==
    LET stored == getFromStorage(projects)
    IN /\ projects' = stored.slot
       /\ UNCHANGED <<traversal, storedCustomTabs, view, calls, users, session, notes, groups, userCats, selectedGroup, ctr>>
       /\ last' = Removed("getProjectsForUser", <<userId>>,
                          SelectSeq(stored.items, LAMBDA p : p.ownerId = userId), Wiped)

\* a call of db.getNotesForUser(userId): it loads the notes and the groups
callGetNotesForUser(userId) ==
    /\ notes' = getStoredNotes(notes).slot
    /\ groups' = getFromStorage(groups).slot
    /\ UNCHANGED <<traversal, storedCustomTabs, view, calls, users, session, projects, userCats, selectedGroup, ctr>>
    /\ last' = Removed("getNotesForUser", <<userId>>, <<getNotesForUser(userId)>>, Wiped)

StorageDrafts ==
    [ownerId : {1, 2}, categories : {<<>>}, projectIds : {<<>>},
     parentId : {NoParent}]

MaxStoredNotes == 1

NextStorage ==
    \/ \E d \in StorageDrafts : ctr.notes < MaxStoredNotes /\ addNote(d)
    \/ ctr.groups = 0 /\ createGroup(1)
    \/ ctr.projects = 0 /\ createProject(1, EmptyCats)
    \/ \E k \in {"agenda_users", "agenda_notes", "agenda_groups", "agenda_projects"},
          t \in RawTexts : setItem(k, RawText(t))
    \/ getAllUsers
    \/ getAllGroups
    \/ \E u \in {1, 2} : getProjectsForUser(u)
    \/ \E u \in {1, 2} : callGetNotesForUser(u)

SpecStorage == InitRegistered /\ [][NextStorage]_vars

\* C14: for each of the four ledgers, when the key holds a text that does not
\* parse, or that parses to something that is not an array, the next read of
\* the ledger returns an empty collection and the key is removed.
C14_DamagedLedgerWiped ==
    [][/\ (last'.op = "getAllUsers" /\ IsRawText(users))
            => (last'.ret = <<>> /\ users' = <<>>)
       /\ (last'.op = "getAllGroups" /\ IsRawText(groups))
            => (last'.ret = <<>> /\ groups' = <<>>)
       /\ (last'.op = "getProjectsForUser" /\ IsRawText(projects))
            => (last'.ret = <<>> /\ projects' = <<>>)
       /\ (last'.op = "getNotesForUser" /\ IsRawText(notes))
            => /\ last'.ret = <<[myNotes |-> <<>>, sharedNotes |-> <<>>]>>
               /\ notes' = <<>>
       /\ (last'.op = "getNotesForUser" /\ IsRawText(groups))
            => groups' = <<>>]_vars

\* a note had been added, the notes key was then overwritten with a text that
\* is not JSON, and getNotesForUser of the note's owner wiped the key
C14_Witness ==
    /\ last.op = "getNotesForUser"
    /\ \E r \in last.removed : "raw" \in DOMAIN r /\ ~Parses(r.raw)
    /\ notes = <<>>
    /\ ctr.notes = 1
    /\ last.ret = <<[myNotes |-> <<>>, sharedNotes |-> <<>>]>>

\* --------------------------------------------- updates of stored records
\* updateNote: full-record replace by id, nothing when the id is not stored
UpdatedNotes(storedNotes, updatedNote) ==
    LET idx == FindIndex(storedNotes, LAMBDA n : n.id = updatedNote.id)
    IN IF idx = 0 THEN storedNotes
       ELSE [storedNotes EXCEPT ![idx] = updatedNote]

updateNote(updatedNote) ==
    /\ LET stored == getStoredNotes(notes)
       IN notes' = IF \E i \in 1..Len(stored.items) : stored.items[i].id = updatedNote.id
                   THEN UpdatedNotes(stored.items, updatedNote)
                   ELSE stored.slot
    /\ last' = Removed("updateNote", <<updatedNote>>, <<>>, Gone)
    /\ UNCHANGED <<traversal, storedCustomTabs, view, calls, users, session, groups, projects, userCats, selectedGroup, ctr>>

updateGroup(updatedGroup) ==
    /\ groups' = UpdatedGroups(groups, updatedGroup)
    /\ last' = Called("updateGroup", <<updatedGroup>>, <<>>)
    /\ UNCHANGED <<traversal, storedCustomTabs, view, calls, users, session, notes, projects, userCats, selectedGroup, ctr>>

updateProject(updatedProject) ==
    /\ projects' = SavedProjects(projects, updatedProject)
    /\ last' = Called("updateProject", <<updatedProject>>, <<>>)
    /\ UNCHANGED <<traversal, storedCustomTabs, view, calls, users, session, notes, groups, userCats, selectedGroup, ctr>>

\* the records the update operations are called with: ids 1 and 2, of which
\* at most 1 is stored
NotesToUpdate ==
    [id : {1, 2}, ownerId : {1}, categories : {<<>>, <<"Trabajo">>},
     sharedWith : {[users |-> <<>>, groups |-> <<>>]}, projectIds : {<<>>},
     parentId : {NoParent}]

GroupsToUpdate ==
    [id : {1, 2}, ownerId : {1}, members : {<<[userId |-> 1, role |-> "admin"]>>},
     pendingMemberIds : {<<>>, <<2>>}]

ProjectsToUpdate ==
    [id : {1, 2}, ownerId : {1}, tabs : {<<>>}, categories : {EmptyCats, DefaultCats}]

UsersToUpdate == [id : {1, 2, 3}, username : UserNames]

UpdateDrafts ==
    [ownerId : {1}, categories : {<<>>}, projectIds : {<<>>}, parentId : {NoParent}]

NextUpdate ==
    \/ \E d \in UpdateDrafts : ctr.notes = 0 /\ addNote(d)
    \/ ctr.groups = 0 /\ createGroup(1)
    \/ ctr.projects = 0 /\ createProject(1, EmptyCats)
    \/ login("alice", "pw1")
    \/ \E n \in NotesToUpdate : updateNote(n)
    \/ \E id \in {1, 2}, sh \in [users : {<<>>, <<2>>}, groups : {<<>>}] :
          updateNoteSharing(id, sh)
    \/ \E g \in GroupsToUpdate : updateGroup(g)
    \/ \E p \in ProjectsToUpdate : updateProject(p)
    \/ \E pu \in UsersToUpdate : updateUser(pu)

SpecUpdate == InitRegistered /\ [][NextUpdate]_vars

\* the id an update operation was called with
UpdatedId(call) == IF call.op = "updateNoteSharing" THEN call.a[1] ELSE call.a[1].id

\* C15: updateNote, updateNoteSharing, updateGroup, updateProject and updateUser
\* called with an id that matches no stored record leave every ledger and the
\* session slot unchanged; updateNoteSharing and updateUser return none.
C15_UpdateOfUnknownIdIsNoOp ==
    [][LET id == UpdatedId(last')
           unknown ==
               \/ last'.op \in {"updateNote", "updateNoteSharing"}
                    /\ \A i \in 1..Len(notes) : notes[i].id # id
               \/ last'.op = "updateGroup" /\ \A i \in 1..Len(groups) : groups[i].id # id
               \/ last'.op = "updateProject"
                    /\ \A i \in 1..Len(projects) : projects[i].id # id
               \/ last'.op = "updateUser" /\ \A i \in 1..Len(users) : users[i].id # id
       IN (last'.op \in {"updateNote", "updateNoteSharing", "updateGroup",
                         "updateProject", "updateUser"} /\ unknown)
          => /\ UNCHANGED <<users, session, notes, groups, projects, userCats>>
             /\ last'.op \in {"updateNoteSharing", "updateUser"} => last'.ret = <<>>]_vars

\* updateGroup was called with a group whose id is not stored while another
\* group, a note and a session are stored
C15_Witness ==
    /\ last.op = "updateGroup"
    /\ Len(groups) = 1
    /\ groups[1].id # last.a[1].id
    /\ notes # <<>>
    /\ session # <<>>

\* ------------------------------------------------------ profile updates
\* what the profile modal hands to updateUser: { ...currentUser, username,
\* company: trimmedCompany || undefined }, for a current user whose id is
\* stored or not
ProfileUpdates ==
    [id : {1, 2, 3}, username : {"alice", "carol"}]
    \cup [id : {1, 2}, username : {"alice", "carol"}, company : {"acme", Undefined}]

NextProfile ==
    \/ \E pu \in ProfileUpdates : updateUser(pu)
    \/ \E u \in {"alice", "bob", "carol"}, p \in Passwords : login(u, p)
    \/ logout

SpecProfile == InitRegistered /\ [][NextProfile]_vars

\* C25: updateUser(p) for a stored id replaces the stored public fields with
\* those of p and keeps the stored id and password; the session slot then
\* holds the updated projection without password, and login with the stored
\* username and the original password succeeds afterwards.
C25_UpdateUserKeepsCredentials ==
    /\ [][(last'.op = "updateUser" /\ \E i \in 1..Len(users) : users[i].id = last'.a[1].id)
          => LET p == last'.a[1]
                 i == CHOOSE k \in 1..Len(users) : users[k].id = p.id
             IN /\ Len(users') = Len(users)
                /\ \A j \in 1..Len(users) : j # i => users'[j] = users[j]
                /\ users'[i].id = users[i].id
                /\ users'[i].password = users[i].password
                /\ users'[i].username = p.username
                /\ \A f \in OptionalFields :
                      IF f \in DOMAIN p
                      THEN IF p[f] = Undefined THEN f \notin DOMAIN users'[i]
                           ELSE users'[i][f] = p[f]
                      ELSE (f \in DOMAIN users'[i]) = (f \in DOMAIN users[i])
                /\ session' = <<[f \in DOMAIN users'[i] \ {"password"} |-> users'[i][f]]>>
                /\ last'.ret # <<>>
                /\ last'.ret[1].username = p.username]_vars
    /\ []((/\ last.op = "login"
           /\ last.after.op = "updateUser"
           /\ last.after.ret # <<>>
           /\ last.a = <<last.after.ret[1].username,
                         RegisteredUsers[last.after.ret[1].id].password>>)
          => /\ last.ret # <<>>
             /\ "password" \notin DOMAIN last.ret[1]
             /\ last.ret[1].username = last.a[1]
             /\ session = last.ret)

\* bob's profile got a new username and a company, and bob then logged in with
\* the new username and his password
C25_Witness ==
    /\ last.op = "login"
    /\ last.after.op = "updateUser"
    /\ last.after.a[1] = [id |-> 2, username |-> "carol", company |-> "acme"]
    /\ last.a = <<"carol", "pw2">>
    /\ last.ret = <<[id |-> 2, username |-> "carol", company |-> "acme"]>>
    /\ session = last.ret

\* ------------------------------------------- arrays with damaged elements
\* Records written by something else than this Store carry ids of their own.
ForeignNote ==
    [id |-> 8, ownerId |-> 1, categories |-> <<>>,
     sharedWith |-> [users |-> <<>>, groups |-> <<>>],
     projectIds |-> <<>>, parentId |-> NoParent]

\* a note of an earlier version: projectId, no projectIds
LegacyNote(projectId) ==
    [id |-> 9, ownerId |-> 1, categories |-> <<>>,
     sharedWith |-> [users |-> <<>>, groups |-> <<>>],
     projectId |-> projectId, parentId |-> NoParent]

ForeignGroup ==
    [id |-> 8, ownerId |-> 1, members |-> <<[userId |-> 1, role |-> "admin"]>>,
     pendingMemberIds |-> <<>>]

ForeignProject == [id |-> 8, ownerId |-> 1, tabs |-> <<>>, categories |-> EmptyCats]

\* an object without the required fields
NoId == [ownerId |-> 1]

\* JSON arrays a ledger key can be made to hold
StoredArrays(key) ==
    CASE key = "agenda_users" ->
            {<<Null, RegisteredUsers[1], NoId, RegisteredUsers[2]>>,
             <<RegisteredUsers[2], NonObject>>}
      [] key = "agenda_notes" ->
            {<<ForeignNote, Null>>, <<NoId, ForeignNote, NonObject, LegacyNote(1)>>,
             <<LegacyNote(1), ForeignNote>>, <<LegacyNote(1), Null>>}
      [] key = "agenda_groups" ->
            {<<Null, ForeignGroup>>, <<ForeignGroup, NonObject, NoId>>}
      [] key = "agenda_projects" ->
            {<<Null, ForeignProject>>, <<NoId, ForeignProject>>}

NextLoad ==
    \/ \E k \in {"agenda_users", "agenda_notes", "agenda_groups", "agenda_projects"} :
          \E arr \in StoredArrays(k) : setItem(k, arr)
    \/ getAllUsers
    \/ getAllGroups
    \/ getProjectsForUser(1)
    \/ callGetNotesForUser(1)
    \/ \E d \in UpdateDrafts : ctr.notes = 0 /\ addNote(d)
    \/ ctr.groups = 0 /\ createGroup(1)
    \/ ctr.projects = 0 /\ createProject(1, EmptyCats)
    \/ updateNote(ForeignNote)
    \/ \E p \in {1, 8} : deleteProject(p)

SpecLoad == InitRegistered /\ [][NextLoad]_vars

ValidItems(slot) == SelectSeq(slot, IsValidItem)

IdsOf(items) == [i \in 1..Len(items) |-> items[i].id]

\* C22: when the stored array of a ledger holds elements that fail the shape
\* validator (objects without the required fields, null, values that are not
\* objects), a read of the ledger returns exactly the valid elements in their
\* stored order and leaves the stored value as it was; for the notes ledger
\* as for the other three.
C22_InvalidItemsDropped ==
    [][/\ (last'.op = "getAllUsers" /\ ~IsRawText(users))
            => /\ IdsOf(last'.ret) = IdsOf(ValidItems(users))
               /\ users' = users
       /\ (last'.op = "getAllGroups" /\ ~IsRawText(groups))
            => /\ last'.ret = ValidItems(groups)
               /\ groups' = groups
       /\ (last'.op = "getProjectsForUser" /\ ~IsRawText(projects))
            => /\ last'.ret = ValidItems(projects)
               /\ projects' = projects
       /\ (last'.op = "getNotesForUser" /\ ~IsRawText(notes))
            => /\ IdsOf(last'.ret[1].myNotes) = IdsOf(ValidItems(notes))
               /\ notes' = notes]_vars

IsLegacy(n) == "projectId" \in DOMAIN n /\ "projectIds" \notin DOMAIN n

\* C23: a stored note with the legacy field projectId = P and no projectIds is
\* read as a note with projectIds = <<P>> and no projectId; deleteProject(P)
\* removes it, and every other save of the NoteLedger stores it in the new
\* shape.
C23_LegacyProjectIdMigrated ==
    [][\A i \in 1..Len(notes) :
          IsLegacy(notes[i]) =>
             LET old == notes[i]
                 IsNew(n) == /\ n.id = old.id
                             /\ "projectId" \notin DOMAIN n
                             /\ "projectIds" \in DOMAIN n
                             /\ n.projectIds = <<old.projectId>>
             IN /\ last'.op = "getNotesForUser"
                     => \E n \in Range(last'.ret[1].myNotes) : IsNew(n)
                /\ (last'.op = "deleteProject" /\ last'.a[1] = old.projectId)
                     => \A n \in Range(notes') : n.id # old.id
                /\ \/ last'.op = "deleteProject" /\ last'.a[1] # old.projectId
                   \/ last'.op = "addNote"
                   \/ last'.op = "updateNote" /\ notes' # notes
                     => \E n \in Range(notes') : IsNew(n)]_vars

\* ------------------------------------------------- what addNote is given
MaxAddNotes == 3   \* addNote calls

\* noteData as the note modal builds it, without and with sharedWith
PlainDrafts ==
    [ownerId : {1, 2}, categories : {<<>>}, projectIds : {<<>>}, parentId : {NoParent}]
    \cup [ownerId : {1}, categories : {<<>>}, projectIds : {<<>>}, parentId : {NoParent},
          sharedWith : {[users |-> <<2>>, groups |-> <<>>]}]

\* noteData that is a whole note: the type leaves id out, the spread does not
DraftsWithId ==
    [id : 1..MaxAddNotes, ownerId : {1}, categories : {<<>>}, projectIds : {<<>>},
     parentId : {NoParent}]

NextAdd ==
    \/ \E d \in PlainDrafts : ctr.notes < MaxAddNotes /\ addNote(d)
    \/ \E d \in DraftsWithId : ctr.notes < MaxAddNotes /\ addNote(d)

SpecAdd == InitRegistered /\ [][NextAdd]_vars

\* C24: every addNote call stores a note whose id differs from the id of every
\* note already stored, whatever fields noteData carries, so the stored note
\* ids are pairwise distinct; a note added without sharedWith is stored with
\* sharedWith = {users: [], groups: []}.
C24_AddNoteFreshId ==
    /\ [][last'.op = "addNote" =>
            /\ notes' = Append(notes, last'.ret[1])
            /\ \A i \in 1..Len(notes) : notes[i].id # last'.ret[1].id
            /\ "sharedWith" \notin DOMAIN last'.a[1]
                  => last'.ret[1].sharedWith = [users |-> <<>>, groups |-> <<>>]]_vars
    /\ [](\A i, j \in 1..Len(notes) : notes[i].id = notes[j].id => i = j)

\* ------------------------------------------------ two tabs, one storage
\* Each browser tab runs its own Store over the same storage.  A call runs to
\* its end within its tab, but the other tab may run between the getItem and
\* the setItem of the call.
MaxTabNotes == 3   \* addNote calls, over both tabs

\* a save that appends to what the key holds at the time of the save
SavedOnTopOfStored(call, stored) == Append(stored, call.newNote)

\* saveNotes([...allNotes, newNote])
SavedByAddNote(call, stored) == Append(call.allNotes, call.newNote)

\* addNote in browser tab t, up to its save: allNotes is loaded, newNote built
addNoteLoad(t, noteData) ==
    /\ calls[t] = <<>>
    /\ LET stored == getStoredNotes(notes)
       IN /\ notes' = stored.slot
          /\ calls' = [calls EXCEPT ![t] =
                          <<[noteData |-> noteData, allNotes |-> stored.items,
                             newNote |-> NewNote(ctr.notes + 1, noteData)]>>]
    /\ ctr' = [ctr EXCEPT !.notes = @ + 1]
    /\ UNCHANGED <<users, session, groups, projects, userCats, selectedGroup,
                   traversal, storedCustomTabs, view, last>>

\* the save of the addNote call of browser tab t, and its return
addNoteSave(t) ==
    /\ calls[t] # <<>>
    /\ notes' = SavedByAddNote(calls[t][1], notes)
    /\ calls' = [calls EXCEPT ![t] = <<>>]
    /\ last' = [op |-> "addNote", a |-> <<calls[t][1].noteData>>,
                ret |-> <<calls[t][1].newNote>>, removed |-> Gone,
                tab |-> t, loaded |-> calls[t][1].allNotes]
    /\ UNCHANGED <<users, session, groups, projects, userCats, selectedGroup, ctr,
                   traversal, storedCustomTabs, view>>

TabDrafts ==
    [ownerId : {1, 2}, categories : {<<>>}, projectIds : {<<>>}, parentId : {NoParent}]

NextTabs ==
    \/ \E t \in BrowserTabs, d \in TabDrafts :
          ctr.notes < MaxTabNotes /\ addNoteLoad(t, d)
    \/ \E t \in BrowserTabs : addNoteSave(t)

SpecTabs == InitRegistered /\ [][NextTabs]_vars

\* C21: when the addNote cycles of two tabs interleave (both load before
\* either saves) the stored ledger after the second save is the collection of
\* the last saver, without the note the other tab added; when a cycle loads
\* after the save before it, both notes are stored.
C21_LastWriteWins ==
    [][\A t \in BrowserTabs :
          (calls[t] # <<>> /\ calls'[t] = <<>>) =>
             LET mine == calls[t][1]
             IN /\ notes' = Append(mine.allNotes, mine.newNote)
                /\ last.op = "addNote" =>
                      IF last.ret[1] \in Range(mine.allNotes)
                      THEN {last.ret[1], mine.newNote} \subseteq Range(notes')
                      ELSE /\ last.ret[1] \in Range(notes)
                           /\ last.ret[1] \notin Range(notes')]_vars

\* both tabs loaded the empty ledger, both saved, and the ledger holds the
\* note of the last saver only
C21_Witness ==
    /\ calls = NoCalls
    /\ ctr.notes = 2
    /\ last.op = "addNote"
    /\ last.loaded = <<>>
    /\ notes = last.ret
    /\ \E n \in last.removed : n.id # last.ret[1].id

\* ------------------------------------------------- categories and notes
MaxCatNotes == 1

\* one project is created
CatProjectIds == {1}

CatNames == {"Trabajo", "Diseno"}

CategoryLists == {<<>>, <<"Trabajo">>, <<"Diseno">>, <<"Trabajo", "Diseno">>}

\* the categories a project is created with
ProjectCats ==
    [masterList |-> <<[name |-> "Diseno", color |-> "cat-sky"],
                      [name |-> "Trabajo", color |-> "cat-rose"]>>,
     active     |-> <<"Diseno", "Trabajo">>]

CatDrafts ==
    [ownerId : RegisteredIds, categories : CategoryLists,
     projectIds : {<<>>} \cup {<<p>> : p \in StoredProjectIds},
     parentId : {NoParent}]

NextCat ==
    \/ \E d \in CatDrafts : ctr.notes < MaxCatNotes /\ addNote(d)
    \/ \E o \in RegisteredIds :
          (ctr.projects + 1) \in CatProjectIds /\ createProject(o, ProjectCats)
    \/ \E u \in RegisteredIds, c \in CatNames, p \in {NoProject} \cup StoredProjectIds :
          deleteCategory(u, c, p)

SpecCat == InitRegistered /\ [][NextCat]_vars

\* C2: after deleteCategory(userId, name[, projectId]) no note of the ledger,
\* whatever its owner or projects, has name among its categories; every note
\* keeps its other categories and its other fields.
C2_DeleteCategoryScrubsAllNotes ==
    [][last'.op = "deleteCategory" =>
        LET name == last'.a[2]
        IN /\ Len(notes') = Len(notes)
           /\ \A i \in 1..Len(notes) :
                /\ name \notin Range(notes'[i].categories)
                /\ Range(notes'[i].categories) = Range(notes[i].categories) \ {name}
                /\ [notes'[i] EXCEPT !.categories = notes[i].categories] = notes[i]]_vars

\* a project-scoped deleteCategory took name out of a note of another owner
\* that is associated with a project and keeps its other category
C2_Witness ==
    /\ last.op = "deleteCategory"
    /\ \E n \in last.removed :
          /\ n.ownerId # last.a[1]
          /\ n.projectIds # <<>>
          /\ Includes(n.categories, last.a[2])
          /\ Len(n.categories) = 2

HasCategory(settings, name) ==
    \/ \E i \in 1..Len(settings.masterList) : settings.masterList[i].name = name
    \/ Includes(settings.active, name)

\* C17: after deleteCategory(userId, name, projectId) for a stored project
\* projectId, whatever userId is, the project's categories.masterList has no
\* entry named name and its categories.active does not contain name; with no
\* projectId the same holds for userId's general CategorySettings.
C17_DeleteCategoryUpdatesScope ==
    [][last'.op = "deleteCategory" =>
        LET userId == last'.a[1]
            name == last'.a[2]
            projectId == last'.a[3]
        IN IF projectId = NoProject
           THEN userId \in DOMAIN userCats' /\ ~HasCategory(userCats'[userId], name)
           ELSE \A i \in 1..Len(projects') :
                   projects'[i].id = projectId => ~HasCategory(projects'[i].categories, name)]_vars

\* ------------------------------------------------------ sharing of notes
MaxShareNotes == 1

\* two groups are created
ShareGroupIds == {1, 2}

\* the selections the share modal can hand to updateNoteSharing
Sharings == [users : {<<>>, <<1>>, <<2>>}, groups : {<<>>, <<1>>, <<2>>, <<1, 2>>}]

ShareDrafts ==
    [ownerId : RegisteredIds, categories : {<<>>}, projectIds : {<<>>},
     parentId : {NoParent}]

NextShare ==
    \/ \E d \in ShareDrafts : ctr.notes < MaxShareNotes /\ addNote(d)
    \/ \E id \in StoredNoteIds, sh \in Sharings : updateNoteSharing(id, sh)
    \/ \E o \in RegisteredIds : (ctr.groups + 1) \in ShareGroupIds /\ createGroup(o)
    \/ \E g \in ShareGroupIds : deleteGroup(g)

SpecShare == InitRegistered /\ [][NextShare]_vars

\* C3: after deleteGroup(G) the GroupLedger has no group with id G and no note
\* has G in sharedWith.groups; the other groups, the other group ids of every
\* note and the other fields of every note are kept.
C3_DeleteGroupScrubsNotes ==
    [][last'.op = "deleteGroup" =>
        LET G == last'.a[1]
        IN /\ \A i \in 1..Len(groups') : groups'[i].id # G
           /\ Range(groups') = {g \in Range(groups) : g.id # G}
           /\ Len(notes') = Len(notes)
           /\ \A i \in 1..Len(notes) :
                /\ G \notin Range(notes'[i].sharedWith.groups)
                /\ Range(notes'[i].sharedWith.groups)
                      = Range(notes[i].sharedWith.groups) \ {G}
                /\ [notes'[i] EXCEPT !.sharedWith.groups = notes[i].sharedWith.groups]
                      = notes[i]]_vars

\* deleteGroup took G out of a note shared with two groups; the other group is
\* still stored
C3_Witness ==
    /\ last.op = "deleteGroup"
    /\ \E n \in last.removed :
          /\ Len(n.sharedWith.groups) = 2
          /\ Includes(n.sharedWith.groups, last.a[1])
    /\ Len(groups) = 1
    /\ groups[1].id # last.a[1]

\* ------------------------------------------------- what a user gets to see
\* one group is created
ViewGroupIds == {1}

\* the selections the share modal can hand to updateNoteSharing
ViewSharings == [users : {<<>>, <<1>>, <<2>>}, groups : {<<>>, <<1>>}]

NextView ==
    \/ \E d \in ShareDrafts : ctr.notes < MaxShareNotes /\ addNote(d)
    \/ \E id \in StoredNoteIds, sh \in ViewSharings : updateNoteSharing(id, sh)
    \/ \E o \in RegisteredIds : (ctr.groups + 1) \in ViewGroupIds /\ createGroup(o)
    \/ \E g \in ViewGroupIds, u \in RegisteredIds : requestToJoinGroup(g, u)
    \/ \E i \in ViewGroupIds : selectGroup(i)
    \/ \E cu \in RegisteredIds, u \in RegisteredIds, approve \in BOOLEAN :
          handleRequest(cu, u, approve)
    \/ \E g \in ViewGroupIds : deleteGroup(g)

SpecView == InitRegistered /\ [][NextView]_vars

MemberIds(group) == {group.members[i].userId : i \in 1..Len(group.members)}

\* C9: for every user u, myNotes is exactly the notes owned by u and sharedNotes
\* exactly the notes not owned by u that list u in sharedWith.users or list a
\* group whose members include u; the two lists are disjoint.
C9_NotesPartition ==
    \A u \in RegisteredIds :
        LET r == getNotesForUser(u)
            mine == {n \in Range(notes) : n.ownerId = u}
            shared == {n \in Range(notes) :
                         /\ n.ownerId # u
                         /\ \/ u \in Range(n.sharedWith.users)
                            \/ \E g \in Range(groups) :
                                  /\ g.id \in Range(n.sharedWith.groups)
                                  /\ u \in MemberIds(g)}
        IN /\ Range(r.myNotes) = mine
           /\ Range(r.sharedNotes) = shared
           /\ Len(r.myNotes) = Cardinality(mine)
           /\ Len(r.sharedNotes) = Cardinality(shared)
           /\ Range(r.myNotes) \cap Range(r.sharedNotes) = {}

\* a note that lists its owner in sharedWith.users and a group which the owner
\* owns and another user has joined: shared for that user, not for the owner
C9_Witness ==
    \E n \in Range(notes), g \in Range(groups), u \in RegisteredIds :
        /\ n.ownerId \in Range(n.sharedWith.users)
        /\ g.id \in Range(n.sharedWith.groups)
        /\ g.ownerId = n.ownerId
        /\ u # n.ownerId
        /\ u \in MemberIds(g)
        /\ getNotesForUser(u).sharedNotes # <<>>
        /\ getNotesForUser(n.ownerId).sharedNotes = <<>>
        /\ getNotesForUser(n.ownerId).myNotes # <<>>

\* the ids of the notes getNotesForUser(u) returns as sharedNotes
SharedNoteIds(u) ==
    LET r == getNotesForUser(u)
    IN {r.sharedNotes[i].id : i \in 1..Len(r.sharedNotes)}

\* note n is shared with group G and with nothing else, and u does not own it
SharedSolelyWith(n, G, u) ==
    /\ n.ownerId # u
    /\ n.sharedWith.users = <<>>
    /\ n.sharedWith.groups = <<G>>

\* C29: a note that u does not own and that is shared with the group G and
\* with nothing else is in getNotesForUser(u).sharedNotes exactly when G is
\* stored and u is one of its members, so not while u is only in
\* pendingMemberIds of G; and right after deleteGroup(G) no such note is in
\* the sharedNotes of u.
C29_PendingSeesNothing ==
    /\ [] \A u \in RegisteredIds : \A i \in 1..Len(notes) : \A G \in ViewGroupIds :
            SharedSolelyWith(notes[i], G, u) =>
               (notes[i].id \in SharedNoteIds(u)
                  <=> \E j \in 1..Len(groups) :
                         groups[j].id = G /\ u \in MemberIds(groups[j]))
    /\ [][ last'.op = "deleteGroup" =>
             \A u \in RegisteredIds : \A i \in 1..Len(notes) :
                SharedSolelyWith(notes[i], last'.a[1], u) =>
                   notes[i].id \notin SharedNoteIds(u)'
       ]_vars

\* a user has asked to join the group a note of another user is shared with,
\* and with nothing else, is pending and no member, and gets no shared note
C29_Witness ==
    /\ last.op = "requestToJoinGroup"
    /\ \E j \in 1..Len(groups) :
          /\ groups[j].id = last.a[1]
          /\ last.a[2] \in Range(groups[j].pendingMemberIds)
          /\ last.a[2] \notin MemberIds(groups[j])
          /\ \E i \in 1..Len(notes) :
                SharedSolelyWith(notes[i], groups[j].id, last.a[2])
    /\ SharedNoteIds(last.a[2]) = {}

\* ------------------------------------------------------ group membership
NextGroups ==
    \/ \E o \in RegisteredIds : ctr.groups < MaxGroups /\ createGroup(o)
    \/ \E g \in GroupIds, u \in RegisteredIds : requestToJoinGroup(g, u)
    \/ \E i \in 1..MaxGroups : selectGroup(i)
    \/ \E cu \in RegisteredIds, u \in RegisteredIds : handleToggleMemberRole(cu, u)
    \/ \E cu \in RegisteredIds, u \in RegisteredIds, approve \in BOOLEAN :
          handleRequest(cu, u, approve)

SpecGroups == InitRegistered /\ [][NextGroups]_vars

\* C10: each stored group's ownerId is in its members with role admin.
C10_OwnerIsAdmin ==
    \A i \in 1..Len(groups) :
        \E j \in 1..Len(groups[i].members) :
            /\ groups[i].members[j].userId = groups[i].ownerId
            /\ groups[i].members[j].role = "admin"

\* a role toggle has been stored: a member who is not the owner is an admin
C10_Witness ==
    /\ last.op = "handleToggleMemberRole"
    /\ \E i \in 1..Len(groups) : \E j \in 1..Len(groups[i].members) :
          /\ groups[i].members[j].userId # groups[i].ownerId
          /\ groups[i].members[j].role = "admin"

\* C11: in every state reached by createGroup, requestToJoinGroup and the
\* approval or rejection of join requests, no user id is both in a group's
\* pendingMemberIds and in its members.
C11_PendingAndMembersDisjoint ==
    \A i \in 1..Len(groups) :
        Range(groups[i].pendingMemberIds) \cap MemberIds(groups[i]) = {}

\* a user who was approved into a group asked to join it again, and the
\* request was not recorded
C11_Witness ==
    /\ last.op = "requestToJoinGroup"
    /\ \E i \in 1..Len(groups) :
          /\ groups[i].id = last.a[1]
          /\ groups[i].ownerId # last.a[2]
          /\ last.a[2] \in MemberIds(groups[i])
          /\ groups[i].pendingMemberIds = <<>>

\* C27: requestToJoinGroup(groupId, userId) appends userId to the
\* pendingMemberIds of the stored group with that id exactly when there is
\* one and userId is neither among its members nor in its pendingMemberIds,
\* and leaves the GroupLedger as it is in every other case; the same call
\* made again right after changes nothing; and no pendingMemberIds holds a
\* user id twice.
C27_RequestToJoinOnce ==
    /\ [][ last'.op = "requestToJoinGroup" =>
             LET groupId == last'.a[1]
                 userId == last'.a[2]
                 Asked(i) == /\ groups[i].id = groupId
                             /\ userId \notin MemberIds(groups[i])
                             /\ userId \notin Range(groups[i].pendingMemberIds)
             IN /\ Len(groups') = Len(groups)
                /\ \A i \in 1..Len(groups) :
                      groups'[i] =
                        IF Asked(i)
                        THEN [groups[i] EXCEPT !.pendingMemberIds = Append(@, userId)]
                        ELSE groups[i]
                /\ GroupsAfterRequest(groups', groupId, userId) = groups'
       ]_vars
    /\ [] \A i \in 1..Len(groups) :
            \A j, k \in 1..Len(groups[i].pendingMemberIds) :
                groups[i].pendingMemberIds[j] = groups[i].pendingMemberIds[k] => j = k

\* a request has been recorded: the user is the one pending member of the
\* group and not a member of it
C27_Witness ==
    /\ last.op = "requestToJoinGroup"
    /\ \E i \in 1..Len(groups) :
          /\ groups[i].id = last.a[1]
          /\ groups[i].pendingMemberIds = <<last.a[2]>>
          /\ last.a[2] \notin MemberIds(groups[i])

\* --------------------------------------------------- hierarchy of notes
\* Tasks of one user: sub-tasks, association with projects, cascading deletes.
\* projectIds as the note modal builds it: absent (<<>>), one project, or two
ProjectIdLists == {<<>>, <<1>>, <<2>>, <<1, 2>>}

\* noteData of a (sub-)task: projects picked among the stored ones, parentId
\* absent or naming a stored note
HierDrafts ==
    [ownerId : {1}, categories : {<<>>},
     projectIds : {l \in ProjectIdLists : Range(l) \subseteq StoredProjectIds},
     parentId : {NoParent} \cup StoredNoteIds]

NextHier ==
    \/ \E d \in HierDrafts : ctr.notes < MaxNotes /\ addNote(d)
    \/ \E id \in NoteIds : deleteNote(id)
    \/ ctr.projects < MaxProjects /\ createProject(1, EmptyCats)
    \/ \E p \in ProjectIds : deleteProject(p)

SpecHier == Init /\ [][NextHier]_vars

\* n is below noteId: following parentId upwards from n, through stored notes,
\* arrives at noteId (at most `fuel` further links are followed).
RECURSIVE IsBelow(_, _, _, _)
IsBelow(ns, n, noteId, fuel) ==
    /\ n.parentId # NoParent
    /\ \/ n.parentId = noteId
       \/ /\ fuel > 0
          /\ \E m \in Range(ns) : m.id = n.parentId /\ IsBelow(ns, m, noteId, fuel - 1)

Subtree(ns, noteId) ==
    {noteId} \cup {n.id : n \in {x \in Range(ns) : IsBelow(ns, x, noteId, Len(ns))}}

\* C1: deleteNote(id) removes exactly the note with that id and every note
\* reachable from it through parentId links; every other note (siblings,
\* ancestors, unrelated notes) stays stored, unchanged and in the same order.
C1_DeleteNoteRemovesSubtree ==
    [][last'.op = "deleteNote" =>
        LET noteId == last'.a[1]
        IN notes' = SelectSeq(notes, LAMBDA n : n.id \notin Subtree(notes, noteId))]_vars

\* deleteNote took out a note and a child of it, and another note is still stored
C1_Witness ==
    /\ last.op = "deleteNote"
    /\ \E n \in last.removed : n.id = last.a[1]
    /\ \E n \in last.removed : n.parentId = last.a[1]
    /\ notes # <<>>

\* C16: deleteNote(id) with an id that matches no stored note is a no-op: the
\* stored notes are the same before and after, also when a stored note's
\* parentId equals that id.
C16_DeleteOfUnknownNoteIsNoOp ==
    [][(last'.op = "deleteNote" /\ \A i \in 1..Len(notes) : notes[i].id # last'.a[1])
       => notes' = notes]_vars

\* ----------------------------------------------- deleteNote, step by step
MaxLedgerNotes == 3   \* addNote calls

\* more pushes than any call needs when no id is enqueued twice
MaxPushes == 2 * (MaxLedgerNotes + 1)

\* parentId as a caller of addNote may set it: any id, also the id a later
\* note is going to get
LedgerDrafts ==
    [ownerId : {1}, categories : {<<>>}, projectIds : {<<>>},
     parentId : 0..MaxLedgerNotes]

NextTraverse ==
    \/ \E d \in LedgerDrafts :
          traversal = <<>> /\ ctr.notes < MaxLedgerNotes /\ addNote(d)
    \/ \E id \in 1..MaxLedgerNotes : deleteNoteBegin(id)
    \/ deleteNoteLoop(MaxPushes)
    \/ deleteNoteEnd

\* a call runs on without interruption until it returns
SpecTraverse ==
    /\ Init
    /\ [][NextTraverse]_vars
    /\ WF_vars(deleteNoteLoop(MaxPushes))
    /\ WF_vars(deleteNoteEnd)

\* C19: deleteNote(id) terminates for every NoteLedger content, also when the
\* parentId links form a cycle: each note id is enqueued at most once, and the
\* call returns.
C19_DeleteNoteTerminates ==
    /\ [](traversal # <<>> =>
            \A i, j \in 1..Len(traversal[1].pushed) :
                traversal[1].pushed[i] = traversal[1].pushed[j] => i = j)
    /\ ((traversal # <<>>) ~> (traversal = <<>>))

\* deleteNote returned after taking out two notes that are each other's parent
C19_Witness ==
    /\ traversal = <<>>
    /\ last.op = "deleteNote"
    /\ \E n, m \in last.removed :
          /\ n.id # m.id
          /\ n.parentId = m.id
          /\ m.parentId = n.id
          /\ last.a[1] = n.id

\* C4: after deleteProject(id) the ProjectLedger has no project with that id and
\* the NoteLedger holds exactly the previously stored notes whose projectIds
\* does not include id, unchanged; a note of id and of another project is gone.
C4_DeleteProjectDeletesItsNotes ==
    [][last'.op = "deleteProject" =>
        LET projectId == last'.a[1]
            kept == {i \in 1..Len(notes) : projectId \notin Range(notes[i].projectIds)}
        IN /\ \A i \in 1..Len(projects') : projects'[i].id # projectId
           /\ Range(notes') = {notes[i] : i \in kept}
           /\ Len(notes') = Cardinality(kept)]_vars

\* deleteProject removed a stored project and a note that was also in another
\* project, and kept a note
C4_Witness ==
    /\ last.op = "deleteProject"
    /\ \E n \in last.removed : Len(n.projectIds) = 2
    /\ notes # <<>>
    /\ Len(projects) < ctr.projects

\* C8: every stored note whose parentId is set has the id of another stored note
\* as parentId (no dangling parent link).
C8_NoDanglingParent ==
    \A i \in 1..Len(notes) :
        notes[i].parentId # NoParent =>
            \E j \in 1..Len(notes) : j # i /\ notes[j].id = notes[i].parentId

\* ------------------------------------------------- tabs of the two views
MaxTabProjects == 1

\* what the category sidebar and the multi-category dialog (which gives no
\* type) of the dashboard hand to addCustomTab; the last two values have the
\* same joined text
DashboardTabs ==
    { [name |-> "Idea", type |-> "category", value |-> OneCategory("Idea")],
      [name |-> "Trabajo+Idea", type |-> "category",
       value |-> OneCategory("Trabajo+Idea")],
      [name |-> "Trabajo + Idea", value |-> Categories(<<"Trabajo", "Idea">>)] }

\* what the project view hands to addProjectTab
ProjectTabs ==
    { [name |-> "Trabajo+Idea", value |-> OneCategory("Trabajo+Idea")],
      [name |-> "Trabajo + Idea", value |-> Categories(<<"Trabajo", "Idea">>)] }

\* the ids of the tabs these make
TabIds ==
    {"Idea", "Trabajo+Idea"} \cup
    {ToString(p) \o "-Trabajo+Idea" : p \in 1..MaxTabProjects}

\* the fixed tabs of the dashboard
FixedTabs == {FixedTab("my"), FixedTab("myShared"), FixedTab("shared")}

NextCustomTabs ==
    \/ fetchData(1)
    \/ \E tab \in DashboardTabs : addCustomTab(tab)
    \/ \E tabId \in TabIds : removeCustomTab(tabId)
    \/ \E tab \in FixedTabs \cup {view.customTabs[i] : i \in 1..Len(view.customTabs)} :
          setActiveTab(tab)
    \/ ctr.projects < MaxTabProjects /\ createProject(1, EmptyCats)
    \/ mountProjectView
    \/ fetchProjectsAndUsers(1)
    \/ \E i \in 1..MaxTabProjects : setSelectedProject(i)
    \/ \E tab \in ProjectTabs : addProjectTab(tab)
    \/ \E tabId \in TabIds : removeProjectTab(tabId)
    \/ \E tab \in {FixedTab("all")} \cup
                  (IF view.selectedProject = <<>> THEN {}
                   ELSE {view.selectedProject[1].tabs[i] :
                            i \in 1..Len(view.selectedProject[1].tabs)}) :
          setActiveProjectTab(tab)

SpecCustomTabs == InitRegistered /\ [][NextCustomTabs]_vars

NoTwoTabsWithOneId(tabs) ==
    \A i, j \in 1..Len(tabs) : tabs[i].id = tabs[j].id => i = j

TabWithId(tabs, id) == tabs[CHOOSE i \in 1..Len(tabs) : tabs[i].id = id]

HasTabWithId(tabs, id) == \E i \in 1..Len(tabs) : tabs[i].id = id

ViewCategoryNames == {"Diseno", "Trabajo"}

\* settings.masterList.map(c => c.name) and settings.active
NamesIn(settings) ==
    {settings.masterList[i].name : i \in 1..Len(settings.masterList)} \cup
    Range(settings.active)

\* deleteCategory is called by the NoteModal of this browser tab or by that
\* of another one, which leaves this view as it is
NextProjectView ==
    \/ ctr.projects < MaxTabProjects /\ createProject(1, ProjectCats)
    \/ mountProjectView
    \/ fetchProjectsAndUsers(1)
    \/ \E i \in 1..MaxTabProjects : setSelectedProject(i)
    \/ \E c \in ViewCategoryNames, p \in 1..MaxTabProjects :
          handleDeleteCategory(1, c, p)
    \/ \E c \in ViewCategoryNames, p \in 1..MaxTabProjects : deleteCategory(1, c, p)
    \/ \E tab \in ProjectTabs : addProjectTab(tab)
    \/ \E tabId \in TabIds : removeProjectTab(tabId)
    \/ openSettings
    \/ handleSave(1)

SpecProjectView == InitRegistered /\ [][NextProjectView]_vars

\* C28: no step of the project view (the refresh of the projects, the choice
\* of a project, adding and removing a project tab, opening the settings and
\* saving them unedited, deleting a category) puts into the stored category
\* settings of a project, neither into masterList nor into active, a name
\* that deleteCategory had taken out of them.
C28_DeletedCategoryStaysDeleted ==
    [][ \A i \in 1..Len(projects) : \A j \in 1..Len(projects') :
          projects'[j].id = projects[i].id =>
             NamesIn(projects'[j].categories) \subseteq NamesIn(projects[i].categories)
      ]_vars

====
